---------------------------- MODULE Spec2Model ----------------------------
(***************************************************************************)
(* Model of the call-recording downloaders of this repository:             *)
(*   - rostelcom:    CloudPBXAuth (session manager), CallRecordsDownloader *)
(*                   (poll cycle), DatabaseManager (ledger); one worker    *)
(*                   process per city, all on one ledger file;             *)
(*   - svyaztransit: StranzitAuth, CallRecordsWatcher, DatabaseManager.    *)
(* The variable `variant` says which program runs; "session" is a direct   *)
(* client of CloudPBXAuth (cloudpbx_auth.main and callers like it).        *)
(***************************************************************************)
EXTENDS Integers, Sequences, FiniteSets, TLC

\* ------------------------------------------------------------- bounds
MaxFetch   == 2      \* longest record list one provider response carries
MaxCycles  == 2      \* poll cycles the workers start in all
MaxCrashes == 1      \* crashes (and restarts) of worker processes
MaxCalls   == 3      \* authorized requests a direct client makes
MaxCount   == 2      \* cap of the per-id download counter

None   == "None"     \* Python None / SQL NULL
Absent == "<absent>" \* a key the provider left out of the JSON item

Workers == {1, 2}    \* city ids of the worker processes

Min(a, b) == IF a < b THEN a ELSE b

\* ------------------------------------------------------------- HTTP
Exc == "exc"                               \* the request raised (timeout, reset)
DataResponses == {"200", "401", "500", Exc}

\* A JWT is modelled by its name; Issuer is what the second segment decodes to.
Tokens     == {"Ta", "Tb"}
DefaultURL == "https://p2.cloudpbx.rt.ru/webapi"
OtherURL   == "https://p1.cloudpbx.rt.ru/webapi"

_extract_base_url_from_token(token) ==
    CASE token = "Ta" -> OtherURL      \* payload carries iss
      [] OTHER        -> None          \* no iss, bad format, or token is None

AuthResponses ==
    {[status |-> Exc], [status |-> "401"], [status |-> "200", json |-> "bad"]}
    \cup {[status |-> "200", json |-> "ok", token |-> t, refresh_token |-> r] :
            t \in Tokens \cup {None}, r \in {"R", None}}

RefreshResponses ==
    {[status |-> Exc], [status |-> "401"], [status |-> "200", json |-> "bad"]}
    \cup {[status |-> "200", json |-> "ok", token |-> t] : t \in Tokens \cup {None}}

\* What the provider answers to the (up to three) sends of one authorized
\* request and to the renewal request between them.
Patterns ==
    [r1 : DataResponses, r2 : DataResponses, r3 : DataResponses, rr : RefreshResponses]

\* --------------------------------------------------- CloudPBXAuth
Bearer(token) == <<"Bearer", token>>
NoHeader == <<>>        \* no Authorization header on the HTTP session

NewSession ==
    [is_authenticated |-> FALSE, token |-> None, refresh_token |-> None,
     header |-> NoHeader, base_url |-> DefaultURL]

\* authenticate(): `have` says login, password and domain are all given.
\* Result: [ret, raised, session, posted].
authenticate(s, have, resp) ==
    IF ~have
    THEN [ret |-> FALSE, raised |-> TRUE, session |-> s, posted |-> FALSE]
    ELSE IF resp.status = Exc \/ (resp.status = "200" /\ resp.json = "bad")
    THEN [ret |-> FALSE, raised |-> FALSE, posted |-> TRUE,
          session |-> [s EXCEPT !.is_authenticated = FALSE]]
    ELSE IF resp.status # "200"
    THEN [ret |-> FALSE, raised |-> FALSE, posted |-> TRUE,
          session |-> [s EXCEPT !.is_authenticated = FALSE]]
    ELSE LET detected == _extract_base_url_from_token(resp.token)
             s1 == [s EXCEPT !.token = resp.token,
                             !.refresh_token = resp.refresh_token,
                             !.is_authenticated = TRUE,
                             !.base_url = IF detected # None /\ detected # s.base_url
                                          THEN detected ELSE @,
                             !.header = Bearer(resp.token)]
         IN  \* the log line slices self._token: TypeError when it is None
             IF resp.token = None
             THEN [ret |-> FALSE, raised |-> FALSE, posted |-> TRUE,
                   session |-> [s1 EXCEPT !.is_authenticated = FALSE]]
             ELSE [ret |-> TRUE, raised |-> FALSE, posted |-> TRUE, session |-> s1]

\* A renewal that reports success whatever the provider answers.
refresh_access_token_always(s, resp) ==
    [ok |-> TRUE, session |-> s, posted |-> s.refresh_token # None]

\* A renewal that calls the endpoint even without a refresh token.
refresh_access_token_unchecked(s, resp) ==
    IF resp.status = "200" /\ resp.json = "ok"
    THEN [ok |-> TRUE, posted |-> TRUE,
          session |-> [s EXCEPT !.token = resp.token, !.header = Bearer(resp.token)]]
    ELSE [ok |-> FALSE, session |-> s, posted |-> TRUE]

\* refresh_access_token(): result [ok, session, posted].
refresh_access_token(s, resp) ==
    IF s.refresh_token = None
    THEN [ok |-> FALSE, session |-> s, posted |-> FALSE]
    ELSE IF resp.status = "200" /\ resp.json = "ok"
    THEN [ok |-> TRUE, posted |-> TRUE,
          session |-> [s EXCEPT !.token = resp.token, !.header = Bearer(resp.token)]]
    ELSE [ok |-> FALSE, session |-> s, posted |-> TRUE]

\* A logout that forgets the tokens but leaves the HTTP session's header.
logout_tokens_only(s) ==
    [s EXCEPT !.token = None, !.refresh_token = None, !.is_authenticated = FALSE]

\* CloudPBXAuth.logout
logout(s) ==
    [s EXCEPT !.token = None, !.refresh_token = None,
              !.is_authenticated = FALSE, !.header = NoHeader]

\* One data request as it goes out: the Authorization header it carries and
\* the authenticated flag at that moment.
Sent(s) == [header |-> s.header, flag |-> s.is_authenticated]

Response(status, n) == [status |-> status, n |-> n]   \* n-th send's response
NoResponse == Response(None, 0)                   \* the call raised instead

\* No guard at all.
NeverRejected(s) == FALSE

\* The guard of get() and post(): raise ValueError before anything is sent.
NotAuthenticated(s) == ~s.is_authenticated

\* get(): result [raised, response, session, sent, renewals, renewal_posts].
\*   raised: None, "ValueError" (not authenticated) or "RequestException".
get(s, p) ==
    IF NotAuthenticated(s)
    THEN [raised |-> "ValueError", response |-> NoResponse, session |-> s,
          sent |-> <<>>, renewals |-> 0, renewal_posts |-> 0]
    ELSE IF p.r1 = Exc
    THEN [raised |-> "RequestException", response |-> NoResponse, session |-> s,
          sent |-> <<Sent(s)>>, renewals |-> 0, renewal_posts |-> 0]
    ELSE IF p.r1 # "401"
    THEN [raised |-> None, response |-> Response(p.r1, 1), session |-> s,
          sent |-> <<Sent(s)>>, renewals |-> 0, renewal_posts |-> 0]
    ELSE IF p.r2 = Exc
    THEN [raised |-> "RequestException", response |-> NoResponse, session |-> s,
          sent |-> <<Sent(s), Sent(s)>>, renewals |-> 0, renewal_posts |-> 0]
    ELSE IF p.r2 # "401"
    THEN [raised |-> None, response |-> Response(p.r2, 2), session |-> s,
          sent |-> <<Sent(s), Sent(s)>>, renewals |-> 0, renewal_posts |-> 0]
    ELSE LET rf == refresh_access_token(s, p.rr)
             np == IF rf.posted THEN 1 ELSE 0
         IN  IF ~rf.ok
             THEN [raised |-> None, response |-> Response(p.r2, 2), session |-> rf.session,
                   sent |-> <<Sent(s), Sent(s)>>, renewals |-> 1, renewal_posts |-> np]
             ELSE IF p.r3 = Exc
             THEN [raised |-> "RequestException", response |-> NoResponse, session |-> rf.session,
                   sent |-> <<Sent(s), Sent(s), Sent(rf.session)>>,
                   renewals |-> 1, renewal_posts |-> np]
             ELSE [raised |-> None, response |-> Response(p.r3, 3), session |-> rf.session,
                   sent |-> <<Sent(s), Sent(s), Sent(rf.session)>>,
                   renewals |-> 1, renewal_posts |-> np]

\* post(): on 401 it renews at once and resends; there is no bare retry.
post(s, p) ==
    IF NotAuthenticated(s)
    THEN [raised |-> "ValueError", response |-> NoResponse, session |-> s,
          sent |-> <<>>, renewals |-> 0, renewal_posts |-> 0]
    ELSE IF p.r1 = Exc
    THEN [raised |-> "RequestException", response |-> NoResponse, session |-> s,
          sent |-> <<Sent(s)>>, renewals |-> 0, renewal_posts |-> 0]
    ELSE IF p.r1 # "401"
    THEN [raised |-> None, response |-> Response(p.r1, 1), session |-> s,
          sent |-> <<Sent(s)>>, renewals |-> 0, renewal_posts |-> 0]
    ELSE LET rf == refresh_access_token(s, p.rr)
             np == IF rf.posted THEN 1 ELSE 0
         IN  IF ~rf.ok
             THEN [raised |-> None, response |-> Response(p.r1, 1), session |-> rf.session,
                   sent |-> <<Sent(s)>>, renewals |-> 1, renewal_posts |-> np]
             ELSE IF p.r2 = Exc
             THEN [raised |-> "RequestException", response |-> NoResponse, session |-> rf.session,
                   sent |-> <<Sent(s), Sent(rf.session)>>,
                   renewals |-> 1, renewal_posts |-> np]
             ELSE [raised |-> None, response |-> Response(p.r2, 2), session |-> rf.session,
                   sent |-> <<Sent(s), Sent(rf.session)>>,
                   renewals |-> 1, renewal_posts |-> np]


\* ------------------------------------------- rostelcom: call records
\* Raw items of the provider's call_history JSON.  NoRecord stands for
\* "record": null (a call without a recording); callId may be left out of
\* the record object.
NoRecord == [callId |-> Absent, duration |-> -1]

\* callerNumber is kept as the tuple of its characters.
RawCalls ==
    {[id |-> "c1", dateTime |-> "2025-01-15 14:30:45+05:00", image |-> "group",
      callerNumber |-> <<"+", "7", "9", "9">>,
      record |-> [callId |-> "k1", duration |-> 200]],
     [id |-> "c2", dateTime |-> "2025-01-15 14:30:45+05:00", image |-> "group_skip",
      callerNumber |-> <<"+", "7", " ", "9", "9">>,
      record |-> [callId |-> "c2", duration |-> 100]],
     [id |-> "c3", dateTime |-> "yesterday", image |-> "group",
      callerNumber |-> <<"7", "9", "9">>,
      record |-> [callId |-> Absent, duration |-> 200]],
     [id |-> "c4", dateTime |-> "2025-01-15 14:30:45+05:00", image |-> "out",
      callerNumber |-> <<"7", "9", "9">>,
      record |-> NoRecord]}

\* CallRecord.__init__
CallRecord(data) ==
    [id            |-> data.id,
     date_time     |-> data.dateTime,
     direction_type |-> data.image,
     caller_number |-> data.callerNumber,
     has_record    |-> data.record # NoRecord,
     record_call_id |-> IF data.record = NoRecord THEN None
                        ELSE IF data.record.callId = Absent THEN data.id
                        ELSE data.record.callId,
     duration_seconds |-> IF data.record = NoRecord THEN 0 ELSE data.record.duration]

is_incoming(record) == record.direction_type \in {"group", "group_skip"}
is_answered(record) == record.has_record

\* strptime of the part before '+': the date part, or None when it raises.
ParseDateTime(date_time) ==
    CASE date_time = "2025-01-15 14:30:45+05:00" -> "2025-01-15_14-30-45"
      [] OTHER -> None

CallerClean(number) ==
    LET kept == SelectSeq(number, LAMBDA ch : ch \notin {"+", " "})
    IN  SubSeq(kept, 1, Min(15, Len(kept)))

\* CallRecord.get_readable_filename
get_readable_filename(record) ==
    LET date_part == ParseDateTime(record.date_time)
    IN  IF date_part = None
        THEN <<"call_", record.id, ".mp3">>
        ELSE <<date_part, "_", CallerClean(record.caller_number), "_",
               record.duration_seconds, "sec.mp3">>

\* Policy of the worker (MIN_DURATION_SECONDS, ONLY_INCOMING defaults).
min_duration  == 180
only_incoming == TRUE

\* filter_records with the mutation "duration <= min_duration is dropped".
RECURSIVE filter_records_strict(_, _, _)
filter_records_strict(records, min_d, incoming) ==
    IF records = <<>> THEN <<>>
    ELSE LET record == Head(records)
             rest   == filter_records_strict(Tail(records), min_d, incoming)
         IN  IF ~is_answered(record) THEN rest
             ELSE IF record.duration_seconds <= min_d THEN rest
             ELSE IF incoming /\ ~is_incoming(record) THEN rest
             ELSE <<record>> \o rest

\* filter_records with `break` in place of the three `continue`s: the loop
\* ends at the first record that is turned down.
RECURSIVE filter_records_break(_, _, _)
filter_records_break(records, min_d, incoming) ==
    IF records = <<>> THEN <<>>
    ELSE LET record == Head(records)
         IN  IF ~is_answered(record) THEN <<>>
             ELSE IF record.duration_seconds < min_d THEN <<>>
             ELSE IF incoming /\ ~is_incoming(record) THEN <<>>
             ELSE <<record>> \o filter_records_break(Tail(records), min_d, incoming)

\* CallRecordsDownloader.filter_records under the policy (self.min_duration,
\* self.only_incoming): the for-loop with its three `continue`s.
RECURSIVE filter_records_policy(_, _, _)
filter_records_policy(records, min_d, incoming) ==
    IF records = <<>> THEN <<>>
    ELSE LET record == Head(records)
             rest   == filter_records_policy(Tail(records), min_d, incoming)
         IN  IF ~is_answered(record) THEN rest
             ELSE IF record.duration_seconds < min_d THEN rest
             ELSE IF incoming /\ ~is_incoming(record) THEN rest
             ELSE <<record>> \o rest

\* filter_records of a worker, whose policy is the default one.
filter_records(records) == filter_records_policy(records, min_duration, only_incoming)

\* The lists a provider response can carry: up to MaxFetch distinct calls.
RECURSIVE ListsOver(_, _)
ListsOver(S, n) ==
    IF n = 0 THEN {<<>>}
    ELSE {<<>>} \cup
         UNION {{<<x>> \o l : l \in ListsOver(S \ {x}, n - 1)} : x \in S}

\* ------------------------------------------- rostelcom: the ledger
BaseColumns ==
    {"id", "call_id", "caller", "duration_seconds", "date_time",
     "downloaded_at", "local_path", "file_size"}

AddColumn(rows, col) ==
    {[c \in (DOMAIN r) \cup {col} |-> IF c \in DOMAIN r THEN r[c] ELSE None] : r \in rows}

\* An init_db that drops and recreates the table.
init_db_recreate(db) ==
    [columns |-> BaseColumns \cup {"city_name", "domain"}, rows |-> {}]

\* DatabaseManager.init_db on table state [columns, rows]; columns = {} is
\* a store with no table yet.
init_db(db) ==
    LET created == IF db.columns = {} THEN [columns |-> BaseColumns, rows |-> {}] ELSE db
        withCity == IF "city_name" \notin created.columns
                    THEN [columns |-> created.columns \cup {"city_name"},
                          rows |-> AddColumn(created.rows, "city_name")]
                    ELSE created
    IN  IF "domain" \notin withCity.columns
        THEN [columns |-> withCity.columns \cup {"domain"},
              rows |-> AddColumn(withCity.rows, "domain")]
        ELSE withCity

\* A lookup on the primary key column instead of call_id.
is_record_downloaded_by_id(rows, call_id) ==
    call_id # None /\ \E r \in rows : r.id = call_id

\* DatabaseManager.is_record_downloaded: SELECT ... WHERE call_id = ?
\* (a NULL parameter matches no row).
is_record_downloaded(rows, call_id) ==
    call_id # None /\ \E r \in rows : r.call_id = call_id

\* A plain INSERT into a table without the primary key.
InsertPlain(rows, row) == rows \cup {row}

\* INSERT OR REPLACE on the primary key id.
InsertOrReplace(rows, row) == {r \in rows : r.id # row.id} \cup {row}

\* A commit that is put off to the end of the cycle.
mark_record_downloaded_deferred(rows, record, local_path, file_size, city_name, domain) ==
    rows

\* A commit that replaces on the file path instead of the primary key.
mark_record_downloaded_by_path(rows, record, local_path, file_size, city_name, domain) ==
    {r \in rows : r.local_path # local_path} \cup
        {[id |-> record.id, call_id |-> record.record_call_id,
          caller |-> record.caller_number,
          duration_seconds |-> record.duration_seconds,
          date_time |-> record.date_time, downloaded_at |-> "CURRENT_TIMESTAMP",
          local_path |-> local_path, file_size |-> file_size,
          city_name |-> city_name, domain |-> domain]}

\* DatabaseManager.mark_record_downloaded
mark_record_downloaded(rows, record, local_path, file_size, city_name, domain) ==
    InsertOrReplace(rows,
        [id |-> record.id, call_id |-> record.record_call_id,
         caller |-> record.caller_number,
         duration_seconds |-> record.duration_seconds,
         date_time |-> record.date_time, downloaded_at |-> "CURRENT_TIMESTAMP",
         local_path |-> local_path, file_size |-> file_size,
         city_name |-> city_name, domain |-> domain])

\* SUM(DISTINCT file_size): equal sizes are counted once.
RECURSIVE SumDistinctSizes(_)
SumDistinctSizes(rows) ==
    IF rows = {} THEN 0
    ELSE LET r == CHOOSE x \in rows : TRUE
         IN  r.file_size + SumDistinctSizes({x \in rows : x.file_size # r.file_size})

\* DatabaseManager.get_stats: total_downloaded and the sum of file_size.
RECURSIVE SumSizes(_)
SumSizes(rows) ==
    IF rows = {} THEN 0
    ELSE LET r == CHOOSE x \in rows : TRUE
         IN  r.file_size + SumSizes(rows \ {r})

\* Bytes in a megabyte: the divisor of "/ 1024 / 1024".
Megabyte == 1048576

\* round(total_size / 1024 / 1024, 2), in hundredths of a megabyte. The
\* quotient is exact in binary, and round() of a float goes to the nearest
\* hundredth, an exact tie to the even digit.
RoundMB(total_size) ==
    LET q    == (total_size * 100) \div Megabyte
        rem2 == 2 * ((total_size * 100) % Megabyte)
    IN  IF rem2 > Megabyte \/ (rem2 = Megabyte /\ q % 2 = 1) THEN q + 1 ELSE q

\* DatabaseManager.get_stats: COUNT(*), SUM(file_size) and its megabytes
\* (downloaded_today reads the wall clock and is not modelled).
get_stats(rows) ==
    [total_downloaded |-> Cardinality(rows), total_size |-> SumSizes(rows),
     total_size_mb |-> RoundMB(SumSizes(rows))]


\* ------------------------------------------- svyaztransit: call records
\* Items of the callRecords JSON of the provider page; CallParties is kept
\* as the tuple of its characters.
STCalls ==
    {[Id |-> "c1", StartTime |-> "/Date(1758446374000)/", CallDirection |-> "In",
      FileName |-> "a.wav", CallParties |-> <<"7", "9", " ", ",", " ", "1", "5">>,
      TotalSeconds |-> 200],
     [Id |-> "c2", StartTime |-> "", CallDirection |-> "Out",
      FileName |-> "b.wav", CallParties |-> <<>>, TotalSeconds |-> 400],
     [Id |-> "c3", StartTime |-> "/Date(1758446374000)/", CallDirection |-> "In",
      FileName |-> "", CallParties |-> <<" ", ",", "1">>, TotalSeconds |-> 200]}

\* svyaztransit CallRecord.__init__
STCallRecord(data) ==
    [id |-> data.Id, start_time |-> data.StartTime, call_direction |-> data.CallDirection,
     file_name |-> data.FileName, call_parties |-> data.CallParties,
     duration_seconds |-> data.TotalSeconds]

\* datetime.fromtimestamp(ms / 1000) of a /Date(ms)/ value, as date and time strings.
FromTimestamp(start_time) ==
    CASE start_time = "/Date(1758446374000)/" -> [date |-> "21.09.2025", time |-> "16-42-39"]
      [] OTHER -> [date |-> None, time |-> None]

\* CallRecord.get_human_readable_time
get_human_readable_time(record) ==
    CASE record.start_time = "/Date(1758446374000)/" -> "2025-09-21 16:42:39"
      [] OTHER -> record.start_time

RECURSIVE LStrip(_)
LStrip(chars) ==
    IF chars # <<>> /\ Head(chars) = " " THEN LStrip(Tail(chars)) ELSE chars

RECURSIVE RStrip(_)
RStrip(chars) ==
    IF chars # <<>> /\ chars[Len(chars)] = " "
    THEN RStrip(SubSeq(chars, 1, Len(chars) - 1)) ELSE chars

\* call_parties.split(',')[0].strip(), or "unknown"
Phone(call_parties) ==
    LET commas == {i \in 1..Len(call_parties) : call_parties[i] = ","}
        first  == IF commas = {} THEN call_parties
                  ELSE SubSeq(call_parties, 1,
                              (CHOOSE i \in commas : \A j \in commas : i <= j) - 1)
        part   == RStrip(LStrip(first))
    IN  IF call_parties = <<>> \/ part = <<>> THEN <<"unknown">> ELSE part

\* .replace(' ', '_').replace(',', '_').replace('(', '').replace(')', '')
ReplaceChars(chars) ==
    LET kept == SelectSeq(chars, LAMBDA ch : ch \notin {"(", ")"})
    IN  [i \in 1..Len(kept) |-> IF kept[i] \in {" ", ","} THEN "_" ELSE kept[i]]

\* .replace('__', '_')
RECURSIVE CollapseUnderscores(_)
CollapseUnderscores(chars) ==
    IF Len(chars) < 2 THEN chars
    ELSE IF chars[1] = "_" /\ chars[2] = "_"
         THEN <<"_">> \o CollapseUnderscores(SubSeq(chars, 3, Len(chars)))
         ELSE <<chars[1]>> \o CollapseUnderscores(Tail(chars))

\* .replace('.wav', '.mp3') of a file name
WavToMp3(file_name) ==
    CASE file_name = "a.wav" -> "a.mp3"
      [] file_name = "b.wav" -> "b.mp3"
      [] OTHER -> file_name

\* The AttributeError of None.replace(...), in place of a file name.
NameRaised == <<"AttributeError">>

\* CallRecordsWatcher.generate_readable_filename: both fallbacks (the else
\* branch and the except handler) are record.file_name.replace('.wav',
\* '.mp3'), which raises when FileName was null.
generate_readable_filename(record) ==
    IF FromTimestamp(record.start_time).date # None
    THEN CollapseUnderscores(ReplaceChars(
             <<FromTimestamp(record.start_time).date, "_",
               FromTimestamp(record.start_time).time, "_">>
             \o Phone(record.call_parties)
             \o <<"_", record.call_direction, ".mp3">>))
    ELSE IF record.file_name = None THEN NameRaised
    ELSE <<WavToMp3(record.file_name)>>

\* ------------------------------------------- svyaztransit: the ledger
STColumns ==
    {"id", "file_name", "start_time", "call_direction", "duration_seconds",
     "downloaded_at", "local_path"}

\* svyaztransit DatabaseManager.init_db: CREATE TABLE IF NOT EXISTS only.
st_init_db(db) ==
    IF db.columns = {} THEN [columns |-> STColumns, rows |-> {}] ELSE db

\* svyaztransit DatabaseManager.is_record_downloaded: WHERE local_path = ?
st_is_record_downloaded(rows, local_path) ==
    \E r \in rows : r.local_path = local_path

\* The row svyaztransit DatabaseManager.mark_record_downloaded writes.
STRow(record, local_path) ==
    [id |-> record.id, file_name |-> record.file_name,
     start_time |-> get_human_readable_time(record),
     call_direction |-> record.call_direction,
     duration_seconds |-> record.duration_seconds,
     downloaded_at |-> "CURRENT_TIMESTAMP", local_path |-> local_path]

\* svyaztransit DatabaseManager.mark_record_downloaded
st_mark_record_downloaded(rows, record, local_path) ==
    InsertOrReplace(rows, STRow(record, local_path))

\* A login that reports success whatever the site answers.
st_login_unchecked(s, resp) ==
    [ret |-> TRUE,
     session |-> IF resp = "200" THEN [s EXCEPT !.is_authenticated = TRUE] ELSE s]

\* StranzitAuth.login: the flag is raised on success and left as it is
\* otherwise.
st_login(s, resp) ==
    IF resp = "200"
    THEN [ret |-> TRUE, session |-> [s EXCEPT !.is_authenticated = TRUE]]
    ELSE [ret |-> FALSE, session |-> s]

\* ------------------------------------------- state
VARIABLES
    variant,          \* "rostelcom", "svyaztransit" or "session"
    db,               \* the ledger store: [columns, rows] of downloaded_records
    db0,              \* (history) the rows the store held when the program started
    files,            \* download directory: path -> [complete, size]
    pc,               \* where each worker process is
    session,          \* each worker's CloudPBXAuth / StranzitAuth object
    filtered,         \* the record list each worker's cycle processes
    idx,              \* position of the download loop in that list
    filepath,         \* what download_record returned for the current record
    downloaded_count, \* process_new_records' counter
    cycles,           \* poll cycles started so far
    crashes,          \* worker crashes so far
    hist,             \* (history) per worker, about its current cycle
    stat,             \* (history) download and request accounting; restarted: the ids
                      \* the ledger held at the last restart of a worker
    call,             \* (history) the last authorized request of a direct client
    kill_now,         \* GracefulKiller.kill_now of the svyaztransit watcher
    probe,            \* a function under test: its inputs and, once applied, its result
    sup               \* the supervisor: MultiAccountOrchestrator / WatcherRestarter

vars == <<variant, db, db0, files, pc, session, filtered, idx, filepath,
          downloaded_count, cycles, crashes, hist, stat, call, kill_now,
          probe, sup>>

\* Bytes of a recording's audio payload: fixed by the recording.
PayloadSize(record) == record.duration_seconds \div 100

\* The provider of a worker issues one token; the direct client explores
\* the whole token space.
WorkerAuthResponses ==
    {r \in AuthResponses : r.status = "200" /\ r.json = "ok" => (r.token = "Ta" /\ r.refresh_token = "R")}
WorkerPatterns ==
    {p \in Patterns : p.rr.status = "200" /\ p.rr.json = "ok" => p.rr.token = "Ta"}

Path(filename) == <<"./downloads", filename>>    \* os.path.join(download_dir, filename)
NoPath == <<>>                                   \* download_record returned None

CityName(w) == CASE w = 1 -> "City-1" [] OTHER -> "City-2"          \* CITY_n_NAME
Domain(w)   == CASE w = 1 -> "d1.rt.ru" [] OTHER -> "d2.rt.ru"      \* CITY_n_DOMAIN

\* A row an earlier release (before city_name and domain existed) wrote.
OldRow(record) ==
    [id |-> record.id, call_id |-> record.record_call_id,
     caller |-> record.caller_number, duration_seconds |-> record.duration_seconds,
     date_time |-> record.date_time, downloaded_at |-> "CURRENT_TIMESTAMP",
     local_path |-> Path(get_readable_filename(record)),
     file_size |-> PayloadSize(record)]

OldRecords == {CallRecord(d) : d \in {x \in RawCalls : x.id = "c1"}}

InitialStores ==
    {[columns |-> {}, rows |-> {}]}
    \cup {[columns |-> BaseColumns, rows |-> {OldRow(r) : r \in R}] : R \in SUBSET OldRecords}

RecordIds == {"c1", "c2", "c3", "c4"}

NoHist == [known |-> {}, done |-> {}, at |-> None, cur |-> None]

NoCall == [n |-> 0, method |-> None, before |-> NewSession, r1 |-> None, r2 |-> None,
           r3 |-> None, rr |-> [status |-> None],
           result |-> [raised |-> None, response |-> NoResponse, session |-> NewSession,
                       sent |-> <<>>, renewals |-> 0, renewal_posts |-> 0]]

\* A store the svyaztransit watcher wrote in an earlier run.
STInitialStores ==
    {[columns |-> {}, rows |-> {}]}
    \cup {[columns |-> STColumns,
           rows |-> {STRow(STCallRecord(d), Path(generate_readable_filename(STCallRecord(d))))
                     : d \in R}]
          : R \in SUBSET {d \in STCalls : d.Id = "c1"}}

InitCommon ==
    /\ db0 = db.rows
    /\ files = [p \in {r.local_path : r \in db.rows} |->
                 [complete |-> TRUE,
                  size |-> (CHOOSE r \in db.rows : r.local_path = p).duration_seconds \div 100]]
    /\ session = [w \in Workers |-> NewSession]
    /\ filtered = [w \in Workers |-> <<>>]
    /\ idx = [w \in Workers |-> 0]
    /\ filepath = [w \in Workers |-> NoPath]
    /\ downloaded_count = [w \in Workers |-> 0]
    /\ cycles = 0
    /\ crashes = 0
    /\ hist = [w \in Workers |-> NoHist]
    /\ stat = [dl |-> [c \in RecordIds |-> 0], committed |-> {}, restarted |-> {},
               written |-> {}, unauth |-> FALSE]
    /\ call = NoCall
    /\ kill_now = FALSE

\* No function is under test, no supervisor runs.
NoProbe == [kind |-> None]
NoSup   == [kind |-> None]
NoExtras == probe = NoProbe /\ sup = NoSup

InitRT ==
    /\ variant = "rostelcom"
    /\ db \in InitialStores
    /\ pc = [w \in Workers |-> "new"]
    /\ InitCommon
    /\ NoExtras

\* ------------------------------------------- rostelcom: the worker
Running == {"idle", "loop", "login", "fetch", "check", "download", "commit", "report",
            "stats", "sleep"}

Current(w) == filtered[w][idx[w]]

Ok200(g) == g.raised = None /\ g.response.status = "200"

SentUnauth(g) == \E i \in 1..Len(g.sent) : ~g.sent[i].flag

\* What one get() from session state s can mean to the worker: the session
\* it leaves, whether a 200 response came back, whether a request left
\* with the authenticated flag down.
GetOutcomes(s) ==
    {[session |-> get(s, p).session, ok200 |-> Ok200(get(s, p)),
      unauth |-> SentUnauth(get(s, p))] : p \in WorkerPatterns}

\* The record lists a cycle can be left with after filter_records.
FilteredLists ==
    {filter_records([i \in 1..Len(items) |-> CallRecord(items[i])])
        : items \in ListsOver(RawCalls, MaxFetch)}

\* The local variables of run_once / process_new_records of worker w.
Locals(w, f, i, path, count) ==
    /\ filtered' = [filtered EXCEPT ![w] = f]
    /\ idx' = [idx EXCEPT ![w] = i]
    /\ filepath' = [filepath EXCEPT ![w] = path]
    /\ downloaded_count' = [downloaded_count EXCEPT ![w] = count]

\* run_once is left (return or exception): its locals are gone and
\* run_continuous goes to sleep.
EndCycle(w) ==
    /\ Locals(w, <<>>, 0, NoPath, 0)
    /\ pc' = [pc EXCEPT ![w] = "sleep"]
    /\ hist' = [hist EXCEPT ![w] = NoHist]

\* The for-loop of process_new_records moves to the next record, or ends
\* with the counter at count.
Advance(w, count) ==
    IF idx[w] < Len(filtered[w])
    THEN /\ Locals(w, filtered[w], idx[w] + 1, NoPath, count)
         /\ pc' = [pc EXCEPT ![w] = "check"]
    ELSE /\ Locals(w, filtered[w], idx[w], NoPath, count)
         /\ pc' = [pc EXCEPT ![w] = "report"]

\* run_city_downloader: CallRecordsDownloader(city_id), which builds the
\* CloudPBXAuth and the DatabaseManager (init_db); also the monitor's restart.
RTStart(w) ==
    /\ variant = "rostelcom"
    /\ pc[w] \in {"new", "crashed"}
    /\ db' = init_db(db)
    /\ session' = [session EXCEPT ![w] = NewSession]
    /\ pc' = [pc EXCEPT ![w] = "idle"]
    /\ hist' = [hist EXCEPT ![w] = NoHist]
    /\ stat' = IF pc[w] = "new" THEN stat
               ELSE [stat EXCEPT !.restarted = {r.id : r \in db.rows}]
    /\ UNCHANGED <<variant, probe, sup, kill_now, db0, files, filtered, idx, filepath, downloaded_count,
                   cycles, crashes, call>>

\* run_once, first step: self.authenticate()
RTAuthenticate(w) ==
    /\ variant = "rostelcom"
    /\ pc[w] = "idle"
    /\ cycles < MaxCycles
    /\ \E resp \in WorkerAuthResponses :
         LET a == authenticate(session[w], TRUE, resp)
         IN  /\ session' = [session EXCEPT ![w] = a.session]
             /\ pc' = [pc EXCEPT ![w] = IF a.ret THEN "fetch" ELSE "sleep"]
    /\ cycles' = cycles + 1
    /\ UNCHANGED <<variant, probe, sup, kill_now, db, db0, files, filtered, idx, filepath, downloaded_count,
                   crashes, hist, stat, call>>

\* run_once: get_call_history (every failure gives []), then filter_records.
RTFetch(w) ==
    /\ variant = "rostelcom"
    /\ pc[w] = "fetch"
    /\ \E g \in GetOutcomes(session[w]) :
       \E f \in IF g.ok200 THEN FilteredLists ELSE {<<>>} :
             /\ session' = [session EXCEPT ![w] = g.session]
             /\ stat' = [stat EXCEPT !.unauth = @ \/ g.unauth]
             /\ IF f = <<>>
                THEN EndCycle(w)
                ELSE /\ Locals(w, f, 1, NoPath, 0)
                     /\ pc' = [pc EXCEPT ![w] = "check"]
                     /\ hist' = [hist EXCEPT ![w].known =
                           {f[i].id : i \in {j \in 1..Len(f) :
                               \E r \in db.rows : r.call_id = f[j].record_call_id}}]
    /\ UNCHANGED <<variant, probe, sup, kill_now, db, db0, files, cycles, crashes, call>>

\* process_new_records: the dedup check of the current record.
RTCheck(w) ==
    /\ variant = "rostelcom"
    /\ pc[w] = "check"
    /\ \/ \* sqlite3 raises: the exception leaves run_once
          EndCycle(w)
       \/ /\ is_record_downloaded(db.rows, Current(w).record_call_id)
          /\ Advance(w, downloaded_count[w])
          /\ hist' = hist
       \/ /\ ~is_record_downloaded(db.rows, Current(w).record_call_id)
          /\ pc' = [pc EXCEPT ![w] = "download"]
          /\ UNCHANGED <<hist, filtered, idx, filepath, downloaded_count>>
    /\ UNCHANGED <<variant, probe, sup, kill_now, db, db0, files, session, cycles, crashes, stat, call>>

\* A download_record that returns the path whatever happened.
download_result_always(ok200, written, path) == path

\* A download_record that returns the path whenever the response was 200.
download_result_unwritten(ok200, written, path) ==
    IF ok200 THEN path ELSE NoPath

\* download_record's result: the path once the payload of a 200 response
\* is written, None otherwise.
download_result(ok200, written, path) ==
    IF ok200 /\ written THEN path ELSE NoPath

\* download_record(record)
RTDownload(w) ==
    /\ variant = "rostelcom"
    /\ pc[w] = "download"
    /\ LET record == Current(w)
           path == Path(get_readable_filename(record))
       IN  IF record.record_call_id = None
           THEN /\ Advance(w, downloaded_count[w])
                /\ UNCHANGED <<session, files, stat, hist>>
           ELSE \E g \in GetOutcomes(session[w]), written \in BOOLEAN :
                  LET result == download_result(g.ok200, written, path)
                  IN  /\ session' = [session EXCEPT ![w] = g.session]
                      /\ files' = IF g.ok200
                                  THEN (path :> [complete |-> written,
                                                 size |-> IF written THEN PayloadSize(record) ELSE 0]) @@ files
                                  ELSE files
                      /\ stat' = [stat EXCEPT
                            !.unauth = @ \/ g.unauth,
                            !.dl[record.id] = IF result # NoPath THEN Min(MaxCount, @ + 1) ELSE @,
                            !.written = IF g.ok200 /\ written
                                        THEN @ \cup {[id |-> record.id, path |-> path]}
                                        ELSE @]
                      /\ IF result # NoPath
                         THEN /\ pc' = [pc EXCEPT ![w] = "commit"]
                              /\ Locals(w, filtered[w], idx[w], result, downloaded_count[w])
                              /\ hist' = [hist EXCEPT ![w].done = @ \cup {record.id}]
                         ELSE /\ Advance(w, downloaded_count[w])
                              /\ hist' = hist
    /\ UNCHANGED <<variant, probe, sup, kill_now, db, db0, cycles, crashes, call>>

\* process_new_records after a download: getsize, mark_record_downloaded,
\* the counter, the one-second pause.
RTCommit(w) ==
    /\ variant = "rostelcom"
    /\ pc[w] = "commit"
    /\ \/ \* os.path.getsize or sqlite3 raises: the exception leaves run_once
          /\ EndCycle(w)
          /\ UNCHANGED <<db, stat>>
       \/ /\ db' = [db EXCEPT !.rows =
                      mark_record_downloaded(@, Current(w), filepath[w],
                          files[filepath[w]].size, CityName(w), Domain(w))]
          /\ Advance(w, downloaded_count[w] + 1)
          /\ stat' = [stat EXCEPT !.committed = @ \cup {Current(w).id}]
          /\ hist' = hist
    /\ UNCHANGED <<variant, probe, sup, kill_now, db0, files, session, cycles, crashes, call>>

\* run_once's statistics line (get_stats), then the return to run_continuous.
RTReport(w) ==
    /\ variant = "rostelcom"
    /\ pc[w] = "report"
    /\ EndCycle(w)
    /\ UNCHANGED <<variant, probe, sup, kill_now, db, db0, files, session, cycles, crashes, stat, call>>

\* run_continuous: time.sleep(check_interval), then the next cycle.
RTSleep(w) ==
    /\ variant = "rostelcom"
    /\ pc[w] = "sleep"
    /\ pc' = [pc EXCEPT ![w] = "idle"]
    /\ UNCHANGED <<variant, probe, sup, kill_now, db, db0, files, session, filtered, idx, filepath,
                   downloaded_count, cycles, crashes, hist, stat, call>>

\* run_continuous: KeyboardInterrupt, then auth.logout().
RTInterrupt(w) ==
    /\ variant = "rostelcom"
    /\ pc[w] \in Running
    /\ pc' = [pc EXCEPT ![w] = "stopped"]
    /\ session' = [session EXCEPT ![w] = logout(@)]
    /\ hist' = [hist EXCEPT ![w] = NoHist]
    /\ Locals(w, <<>>, 0, NoPath, 0)
    /\ UNCHANGED <<variant, probe, sup, kill_now, db, db0, files, cycles, crashes, stat, call>>

\* The worker process dies (kill, power loss): nothing of its memory is
\* kept.
Crash(w) ==
    /\ variant \in {"rostelcom", "svyaztransit"}
    /\ pc[w] \in Running
    /\ crashes < MaxCrashes
    /\ crashes' = crashes + 1
    /\ pc' = [pc EXCEPT ![w] = "crashed"]
    /\ session' = [session EXCEPT ![w] = NewSession]
    /\ Locals(w, <<>>, 0, NoPath, 0)
    /\ hist' = [hist EXCEPT ![w].known = {}, ![w].at = pc[w],
                            ![w].cur = IF pc[w] = "commit" THEN Current(w).id ELSE None]
    /\ UNCHANGED <<variant, probe, sup, kill_now, db, db0, files, cycles, stat, call>>

\* ------------------------------------------- svyaztransit: the watcher
\* One watcher process (worker 1) runs; auto_restart.py starts it again when
\* it is gone.
InitST ==
    /\ variant = "svyaztransit"
    /\ db \in STInitialStores
    /\ pc = [w \in Workers |-> IF w = 1 THEN "new" ELSE "off"]
    /\ InitCommon
    /\ NoExtras

\* run_continuous is left: the process ends.
EndLoop(w) ==
    /\ Locals(w, <<>>, 0, NoPath, 0)
    /\ pc' = [pc EXCEPT ![w] = "ended"]
    /\ hist' = [hist EXCEPT ![w] = [NoHist EXCEPT !.at = pc[w]]]

\* run_once returns to run_continuous, which reads the statistics next.
EndRunOnce(w) ==
    /\ Locals(w, <<>>, 0, NoPath, 0)
    /\ pc' = [pc EXCEPT ![w] = "stats"]
    /\ hist' = [hist EXCEPT ![w] = NoHist]

\* The for-loop of svyaztransit process_new_records.
STAdvance(w, count) ==
    IF idx[w] < Len(filtered[w])
    THEN /\ Locals(w, filtered[w], idx[w] + 1, NoPath, count)
         /\ pc' = [pc EXCEPT ![w] = "check"]
         /\ hist' = hist
    ELSE /\ Locals(w, filtered[w], idx[w], NoPath, count)
         /\ pc' = [pc EXCEPT ![w] = "report"]
         /\ hist' = hist

\* main(): CallRecordsWatcher() builds StranzitAuth, DatabaseManager
\* (init_db) and a GracefulKiller.
STStart(w) ==
    /\ variant = "svyaztransit"
    /\ pc[w] \in {"new", "crashed", "ended"}
    /\ db' = st_init_db(db)
    /\ session' = [session EXCEPT ![w] = NewSession]
    /\ kill_now' = FALSE
    /\ pc' = [pc EXCEPT ![w] = "loop"]
    /\ hist' = [hist EXCEPT ![w] = NoHist]
    /\ stat' = IF pc[w] = "new" THEN stat
               ELSE [stat EXCEPT !.restarted = {r.id : r \in db.rows}]
    /\ UNCHANGED <<variant, probe, sup, db0, files, filtered, idx, filepath, downloaded_count,
                   cycles, crashes, call>>

\* GracefulKiller.exit_gracefully on SIGINT / SIGTERM
STSignal(w) ==
    /\ variant = "svyaztransit"
    /\ pc[w] \in Running
    /\ ~kill_now
    /\ kill_now' = TRUE
    /\ UNCHANGED <<variant, probe, sup, db, db0, files, pc, session, filtered, idx, filepath,
                   downloaded_count, cycles, crashes, hist, stat, call>>

\* run_continuous: the loop condition, perform_maintenance, check_disk_space
STLoop(w) ==
    /\ variant = "svyaztransit"
    /\ pc[w] = "loop"
    /\ IF kill_now
       THEN EndLoop(w)
       ELSE \/ \* maintenance or the disk check raises
               EndLoop(w)
            \/ \* critically little disk space: sleep, continue
               /\ pc' = [pc EXCEPT ![w] = "sleep"]
               /\ UNCHANGED <<filtered, idx, filepath, downloaded_count, hist>>
            \/ /\ pc' = [pc EXCEPT ![w] = "login"]
               /\ UNCHANGED <<filtered, idx, filepath, downloaded_count, hist>>
    /\ UNCHANGED <<variant, probe, sup, kill_now, db, db0, files, session, cycles, crashes, stat, call>>

\* run_once, first step: self.login()
STLogin(w) ==
    /\ variant = "svyaztransit"
    /\ pc[w] = "login"
    /\ cycles < MaxCycles
    /\ cycles' = cycles + 1
    /\ \E resp \in {"200", "401", Exc} :
         LET a == st_login(session[w], resp)
         IN  /\ session' = [session EXCEPT ![w] = a.session]
             /\ pc' = [pc EXCEPT ![w] = IF a.ret THEN "fetch" ELSE "stats"]
    /\ UNCHANGED <<variant, probe, sup, kill_now, db, db0, files, filtered, idx, filepath,
                   downloaded_count, crashes, hist, stat, call>>

\* run_once: get_filtered_records, a POST sent on auth.session itself.
STFetch(w) ==
    /\ variant = "svyaztransit"
    /\ pc[w] = "fetch"
    /\ stat' = [stat EXCEPT !.unauth = @ \/ ~session[w].is_authenticated]
    /\ \E resp \in DataResponses :
         IF resp = Exc
         THEN EndLoop(w)
         ELSE \E items \in IF resp = "200" THEN ListsOver(STCalls, MaxFetch) ELSE {<<>>} :
                LET records == [i \in 1..Len(items) |-> STCallRecord(items[i])]
                IN  IF records = <<>>
                    THEN EndRunOnce(w)
                    ELSE /\ Locals(w, records, 1, NoPath, 0)
                         /\ pc' = [pc EXCEPT ![w] = "check"]
                         /\ hist' = [hist EXCEPT ![w].known =
                               {records[i].id : i \in {j \in 1..Len(records) :
                                   \E r \in db.rows : r.local_path =
                                       Path(generate_readable_filename(records[j]))}}]
    /\ UNCHANGED <<variant, probe, sup, kill_now, db, db0, files, session, cycles, crashes, call>>

\* svyaztransit process_new_records: the dedup check of the current record.
STCheck(w) ==
    /\ variant = "svyaztransit"
    /\ pc[w] = "check"
    /\ \/ \* sqlite3 raises: nothing catches it before run_continuous
          EndLoop(w)
       \/ /\ st_is_record_downloaded(db.rows, Path(generate_readable_filename(Current(w))))
          /\ STAdvance(w, downloaded_count[w])
       \/ /\ ~st_is_record_downloaded(db.rows, Path(generate_readable_filename(Current(w))))
          /\ pc' = [pc EXCEPT ![w] = "download"]
          /\ UNCHANGED <<hist, filtered, idx, filepath, downloaded_count>>
    /\ UNCHANGED <<variant, probe, sup, kill_now, db, db0, files, session, cycles, crashes, stat, call>>

\* svyaztransit download_record: a GET sent on auth.session itself.
STDownload(w) ==
    /\ variant = "svyaztransit"
    /\ pc[w] = "download"
    /\ LET record == Current(w)
           path == Path(generate_readable_filename(record))
       IN  IF record.file_name = ""
           THEN /\ STAdvance(w, downloaded_count[w])
                /\ UNCHANGED <<files, stat>>
           ELSE \E resp \in DataResponses, written \in BOOLEAN :
                  LET result == download_result(resp = "200", written, path)
                  IN  /\ files' = IF resp = "200"
                                  THEN (path :> [complete |-> written,
                                                 size |-> IF written THEN PayloadSize(record) ELSE 0]) @@ files
                                  ELSE files
                      /\ stat' = [stat EXCEPT
                            !.unauth = @ \/ ~session[w].is_authenticated,
                            !.dl[record.id] = IF result # NoPath THEN Min(MaxCount, @ + 1) ELSE @,
                            !.written = IF resp = "200" /\ written
                                        THEN @ \cup {[id |-> record.id, path |-> path]}
                                        ELSE @]
                      /\ IF result # NoPath
                         THEN /\ pc' = [pc EXCEPT ![w] = "commit"]
                              /\ Locals(w, filtered[w], idx[w], result, downloaded_count[w])
                              /\ hist' = [hist EXCEPT ![w].done = @ \cup {record.id}]
                         ELSE STAdvance(w, downloaded_count[w])
    /\ UNCHANGED <<variant, probe, sup, kill_now, db, db0, session, cycles, crashes, call>>

\* svyaztransit process_new_records after a download: mark_record_downloaded,
\* the counter, the one-second pause.
STCommit(w) ==
    /\ variant = "svyaztransit"
    /\ pc[w] = "commit"
    /\ \/ \* sqlite3 raises
          /\ EndLoop(w)
          /\ UNCHANGED <<db, stat>>
       \/ /\ db' = [db EXCEPT !.rows = st_mark_record_downloaded(@, Current(w), filepath[w])]
          /\ STAdvance(w, downloaded_count[w] + 1)
          /\ stat' = [stat EXCEPT !.committed = @ \cup {Current(w).id}]
    /\ UNCHANGED <<variant, probe, sup, kill_now, db0, files, session, cycles, crashes, call>>

\* run_once's closing log line and return
STReport(w) ==
    /\ variant = "svyaztransit"
    /\ pc[w] = "report"
    /\ EndRunOnce(w)
    /\ UNCHANGED <<variant, probe, sup, kill_now, db, db0, files, session, cycles, crashes, stat, call>>

\* run_continuous: self.db.get_stats() after run_once
STStats(w) ==
    /\ variant = "svyaztransit"
    /\ pc[w] = "stats"
    /\ \/ \* sqlite3 raises
          EndLoop(w)
       \/ /\ pc' = [pc EXCEPT ![w] = "sleep"]
          /\ UNCHANGED <<filtered, idx, filepath, downloaded_count, hist>>
    /\ UNCHANGED <<variant, probe, sup, kill_now, db, db0, files, session, cycles, crashes, stat, call>>

\* run_continuous: time.sleep(check_interval), then the loop condition
STSleep(w) ==
    /\ variant = "svyaztransit"
    /\ pc[w] = "sleep"
    /\ pc' = [pc EXCEPT ![w] = "loop"]
    /\ UNCHANGED <<variant, probe, sup, kill_now, db, db0, files, session, filtered, idx, filepath,
                   downloaded_count, cycles, crashes, hist, stat, call>>

NextST ==
    \E w \in Workers :
        \/ STStart(w) \/ STSignal(w) \/ STLoop(w) \/ STLogin(w) \/ STFetch(w)
        \/ STCheck(w) \/ STDownload(w) \/ STCommit(w) \/ STReport(w) \/ STStats(w)
        \/ STSleep(w) \/ Crash(w)

SpecST == InitST /\ [][NextST]_vars

\* ------------------------------------------- a direct client of CloudPBXAuth
\* The client owns one CloudPBXAuth object (slot 1 of `session`) and calls
\* its public methods in any order.
InitSession ==
    /\ variant = "session"
    /\ db = [columns |-> {}, rows |-> {}]
    /\ pc = [w \in Workers |-> "off"]
    /\ InitCommon
    /\ NoExtras

\* The record of one get/post call: the session before it, the provider's
\* answers the call consumed (None for a request never made), the result.
CallOf(method, before, p, result) ==
    [n |-> call.n + 1, method |-> method, before |-> before,
     r1 |-> IF Len(result.sent) >= 1 THEN p.r1 ELSE None,
     r2 |-> IF Len(result.sent) >= 2 THEN p.r2 ELSE None,
     r3 |-> IF Len(result.sent) >= 3 THEN p.r3 ELSE None,
     rr |-> IF result.renewal_posts = 1 THEN p.rr ELSE [status |-> None],
     result |-> result]

SAuthenticate ==
    /\ variant = "session"
    /\ \E have \in BOOLEAN, resp \in AuthResponses :
         session' = [session EXCEPT ![1] = authenticate(@, have, resp).session]
    /\ call' = [NoCall EXCEPT !.n = call.n]
    /\ UNCHANGED <<variant, probe, sup, kill_now, db, db0, files, pc, filtered, idx, filepath,
                   downloaded_count, cycles, crashes, hist, stat>>

SRefresh ==
    /\ variant = "session"
    /\ \E resp \in RefreshResponses :
         session' = [session EXCEPT ![1] = refresh_access_token(@, resp).session]
    /\ call' = [NoCall EXCEPT !.n = call.n]
    /\ UNCHANGED <<variant, probe, sup, kill_now, db, db0, files, pc, filtered, idx, filepath,
                   downloaded_count, cycles, crashes, hist, stat>>

SLogout ==
    /\ variant = "session"
    /\ session' = [session EXCEPT ![1] = logout(@)]
    /\ call' = [NoCall EXCEPT !.n = call.n]
    /\ UNCHANGED <<variant, probe, sup, kill_now, db, db0, files, pc, filtered, idx, filepath,
                   downloaded_count, cycles, crashes, hist, stat>>

SGet ==
    /\ variant = "session"
    /\ call.n < MaxCalls
    /\ \E p \in Patterns :
         LET g == get(session[1], p)
         IN  /\ session' = [session EXCEPT ![1] = g.session]
             /\ call' = CallOf("get", session[1], p, g)
             /\ stat' = [stat EXCEPT !.unauth = @ \/ SentUnauth(g)]
    /\ UNCHANGED <<variant, probe, sup, kill_now, db, db0, files, pc, filtered, idx, filepath,
                   downloaded_count, cycles, crashes, hist>>

SPost ==
    /\ variant = "session"
    /\ call.n < MaxCalls
    /\ \E p \in Patterns :
         LET g == post(session[1], p)
         IN  /\ session' = [session EXCEPT ![1] = g.session]
             /\ call' = CallOf("post", session[1], p, g)
             /\ stat' = [stat EXCEPT !.unauth = @ \/ SentUnauth(g)]
    /\ UNCHANGED <<variant, probe, sup, kill_now, db, db0, files, pc, filtered, idx, filepath,
                   downloaded_count, cycles, crashes, hist>>

NextSession == SAuthenticate \/ SRefresh \/ SLogout \/ SGet \/ SPost

SpecSession == InitSession /\ [][NextSession]_vars

NextRT ==
    \E w \in Workers :
        \/ RTStart(w) \/ RTAuthenticate(w) \/ RTFetch(w) \/ RTCheck(w)
        \/ RTDownload(w) \/ RTCommit(w) \/ RTReport(w) \/ RTSleep(w)
        \/ RTInterrupt(w) \/ Crash(w)

SpecRT == InitRT /\ [][NextRT]_vars

\* Every program of the repository.
Init == InitRT \/ InitST \/ InitSession

Next == NextRT \/ NextST \/ NextSession

Spec == Init /\ [][Next]_vars

\* ------------------------------------------- multi-account: the tenants
Cities == {1, 2}

\* The placeholder password of the sample environment file (a Cyrillic
\* string in the source, transliterated here).
Placeholder == "ZAPOLNITE_PAROL"

\* Python truthiness of an environment value: unset (None) and "" are false.
Truthy(x) == x \notin {None, ""}

\* CITY_n_NAME, CITY_n_LOGIN, CITY_n_PASSWORD, CITY_n_DOMAIN of one city.
CityEnvs ==
    [name : {None, "", "Town"}, login : {"", "admin", "boss"},
     password : {"", "pw", Placeholder}, domain : {"", "d.rt.ru"}]

Envs == [Cities -> CityEnvs]

\* CityAccount.is_valid
is_valid(account) ==
    /\ Truthy(account.name)
    /\ Truthy(account.login)
    /\ Truthy(account.password) /\ account.password # Placeholder
    /\ Truthy(account.domain)

\* AppConfig.load_city_accounts: the cities whose four variables are all set
\* are those it can hold a configuration for.
Complete(env) == {c \in Cities : \A f \in {"name", "login", "password", "domain"} :
                                    Truthy(env[c][f])}

\* city_configs: the configurations of the cities in `listed`, by city number.
CityConfigs(env, listed) ==
    LET ids == SelectSeq([i \in 1..Cardinality(Cities) |-> i], LAMBDA c : c \in listed)
    IN  [i \in 1..Len(ids) |-> env[ids[i]]]

\* CityAccount(city_id, name, login, password, domain)
CityAccount(city_id, name, login, password, domain) ==
    [city_id |-> city_id, name |-> name, login |-> login, password |-> password,
     domain |-> domain]

\* f'City-{city_id}'
DefaultName(city_id) == IF city_id = 1 THEN "City-1" ELSE "City-2"

\* The inner loop of load_city_accounts: the index of the first configuration
\* whose name, login and domain equal the city's variables, 0 without one.
MatchingConfig(city_configs, e) ==
    LET hits == {i \in 1..Len(city_configs) :
                   /\ e.name = city_configs[i].name
                   /\ e.login = city_configs[i].login
                   /\ e.domain = city_configs[i].domain}
    IN  IF hits = {} THEN 0 ELSE CHOOSE i \in hits : \A j \in hits : i <= j

\* One iteration of the outer loop of load_city_accounts: the account of
\* city_id as a list of one, or the empty list.
AccountOf(env, city_configs, city_id) ==
    LET e == env[city_id]
        i == MatchingConfig(city_configs, e)
    IN  IF i # 0
        THEN LET account_config == city_configs[i]
                 account == CityAccount(city_id,
                               IF Truthy(account_config.name) THEN account_config.name
                               ELSE DefaultName(city_id),
                               IF Truthy(account_config.login) THEN account_config.login ELSE "",
                               IF Truthy(account_config.password) THEN account_config.password
                               ELSE "",
                               IF Truthy(account_config.domain) THEN account_config.domain ELSE "")
             IN  IF is_valid(account) THEN <<account>> ELSE <<>>
        ELSE IF Truthy(e.name) /\ Truthy(e.login) /\ Truthy(e.password) /\ Truthy(e.domain)
             THEN LET account == CityAccount(city_id, e.name, e.login, e.password, e.domain)
                  IN  IF is_valid(account) THEN <<account>> ELSE <<>>
             ELSE <<>>

\* load_city_accounts: for city_id in range(1, 17), in that order.
RECURSIVE AccountsFrom(_, _, _)
AccountsFrom(env, city_configs, city_id) ==
    IF city_id \notin Cities THEN <<>>
    ELSE AccountOf(env, city_configs, city_id)
         \o AccountsFrom(env, city_configs, city_id + 1)

load_city_accounts(env, listed) == AccountsFrom(env, CityConfigs(env, listed), 1)

InitTenants ==
    /\ variant = "tenants"
    /\ db = [columns |-> {}, rows |-> {}]
    /\ pc = [w \in Workers |-> "off"]
    /\ InitCommon
    /\ sup = NoSup
    /\ \E env \in Envs : \E listed \in SUBSET Complete(env) :
         probe = [kind |-> "tenants", env |-> env, listed |-> listed,
                  done |-> FALSE, accounts |-> <<>>]

\* MultiAccountOrchestrator.load_accounts
LoadAccounts ==
    /\ variant = "tenants"
    /\ ~probe.done
    /\ probe' = [probe EXCEPT !.done = TRUE,
                              !.accounts = load_city_accounts(probe.env, probe.listed)]
    /\ UNCHANGED <<variant, sup, db, db0, files, pc, session, filtered, idx, filepath,
                   downloaded_count, cycles, crashes, hist, stat, call, kill_now>>

NextTenants == LoadAccounts

SpecTenants == InitTenants /\ [][NextTenants]_vars

\* ------------------------------------------- multi-account: the orchestrator
MaxPasses == 11
MaxStops  == 2

\* monitor_processes: time.sleep(30) per pass, time.sleep(10) before a
\* restart; start_all: delay_between_starts; WatcherRestarter's ceiling.
MonitorInterval       == 30
RestartDelay          == 10
delay_between_starts  == 3
max_restarts_per_hour == 10

\* A multiprocessing.Process handle: is_alive() and exitcode.
Process(alive, exitcode) == [alive |-> alive, exitcode |-> exitcode]

\* The exit codes of run_city_downloader: 0 when run_once / run_continuous
\* returns or KeyboardInterrupt is caught, 1 from sys.exit(1).
ExitCodes == {"0", "1"}

CityIds(accounts) == [i \in 1..Len(accounts) |-> accounts[i].city_id]

InitOrch ==
    /\ variant = "orchestrator"
    /\ db = [columns |-> {}, rows |-> {}]
    /\ pc = [w \in Workers |-> "off"]
    /\ InitCommon
    /\ probe = NoProbe
    /\ \E env \in Envs, once \in BOOLEAN : \E listed \in SUBSET Complete(env) :
         sup = [kind |-> "orchestrator",
                accounts |-> CityIds(load_city_accounts(env, listed)),
                processes |-> <<>>, running |-> FALSE, once |-> once,
                at |-> "loaded", pos |-> 0, events |-> <<>>,
                passes |-> 0, restarts |-> [c \in Cities |-> 0], stops |-> 0]

OrchFrame ==
    UNCHANGED <<variant, probe, db, db0, files, pc, session, filtered, idx, filepath,
                downloaded_count, cycles, crashes, hist, stat, call, kill_now>>

\* main(): no account -> sys.exit(1); the --cities filter; then start_all.
OrchMain ==
    /\ variant = "orchestrator"
    /\ sup.at = "loaded"
    /\ IF sup.accounts = <<>>
       THEN sup' = [sup EXCEPT !.at = "exited"]
       ELSE \E city_ids \in SUBSET Cities :
              sup' = [sup EXCEPT !.at = "start_all",
                                 !.accounts = SelectSeq(@, LAMBDA c : c \in city_ids)]
    /\ OrchFrame

\* What main() does once start_all has returned: join the workers in --once
\* mode, monitor_processes otherwise.
AfterStart(once) == IF once THEN "join" ELSE "monitor"

\* start_all up to its loop: the early return without accounts, the flag.
StartAll ==
    /\ variant = "orchestrator"
    /\ sup.at = "start_all"
    /\ IF sup.accounts = <<>>
       THEN sup' = [sup EXCEPT !.at = AfterStart(sup.once)]
       ELSE sup' = [sup EXCEPT !.running = TRUE, !.at = "launching", !.pos = 1]
    /\ OrchFrame

\* _start_city_process: process.start(); self.processes[city_id] = process
start_city_process(processes, city_id) ==
    (city_id :> Process(TRUE, None)) @@ processes

\* start_all with a delay after every launch, the last one included.
stagger_always(i, n) == <<<<"sleep", delay_between_starts>>>>

\* start_all: `if i < len(self.accounts) - 1: time.sleep(delay_between_starts)`
\* for the i-th account of n, counted from 0 as enumerate does.
stagger(i, n) ==
    IF i < n - 1 THEN <<<<"sleep", delay_between_starts>>>> ELSE <<>>

\* One iteration of the loop of start_all: the launch, then the delay unless
\* the account is the last one.
Launch ==
    /\ variant = "orchestrator"
    /\ sup.at = "launching"
    /\ LET city_id == sup.accounts[sup.pos]
           last    == sup.pos = Len(sup.accounts)
       IN  sup' = [sup EXCEPT
              !.processes = start_city_process(@, city_id),
              !.events = @ \o <<<<"launch", city_id>>>> \o
                         stagger(sup.pos - 1, Len(sup.accounts)),
              !.at = IF last THEN AfterStart(sup.once) ELSE "launching",
              !.pos = IF last THEN 0 ELSE @ + 1]
    /\ OrchFrame

\* A worker process ends by itself.
WorkerExit(c) ==
    /\ variant = "orchestrator"
    /\ sup.at \in {"launching", "join", "monitor", "visit"}
    /\ c \in DOMAIN sup.processes
    /\ sup.processes[c].alive
    /\ \E code \in ExitCodes :
         sup' = [sup EXCEPT !.processes[c] = Process(FALSE, code)]
    /\ OrchFrame

\* main() in --once mode: process.join() for every worker, then the end.
JoinAll ==
    /\ variant = "orchestrator"
    /\ sup.at = "join"
    /\ \A c \in DOMAIN sup.processes : ~sup.processes[c].alive
    /\ sup' = [sup EXCEPT !.at = "exited"]
    /\ OrchFrame

\* monitor_processes: `while self.running`, time.sleep(30), and the snapshot
\* list(self.processes.items()) the pass walks.
MonitorPass ==
    /\ variant = "orchestrator"
    /\ sup.at = "monitor"
    /\ IF ~sup.running
       THEN sup' = [sup EXCEPT !.at = "exited"]
       ELSE /\ sup.passes < MaxPasses
            /\ sup' = [sup EXCEPT !.at = "visit", !.pos = 1, !.passes = @ + 1]
    /\ OrchFrame

\* The monitor's test of one worker with the "exit code 0" case dropped.
needs_restart_any(process) == ~process.alive

\* monitor_processes restarting on the exit code alone, alive or not.
needs_restart_by_code(process) == process.exitcode # "0"

\* monitor_processes: `if not process.is_alive()` and `exit_code == 0`.
needs_restart(process) == ~process.alive /\ process.exitcode # "0"

\* monitor_processes: the body of the for-loop for one worker.
MonitorVisit ==
    /\ variant = "orchestrator"
    /\ sup.at = "visit"
    /\ LET city_id == sup.accounts[sup.pos]
           last    == sup.pos = Len(sup.accounts)
           restart == needs_restart(sup.processes[city_id])
       IN  sup' = [sup EXCEPT
              !.processes = IF restart THEN start_city_process(@, city_id) ELSE @,
              !.restarts[city_id] = IF restart THEN @ + 1 ELSE @,
              !.at = IF last THEN "monitor" ELSE "visit",
              !.pos = IF last THEN 0 ELSE @ + 1]
    /\ OrchFrame

\* stop_all without the forced kill of the workers that outlive the join.
stop_all_no_kill(s, stubborn) ==
    [s EXCEPT
       !.running = FALSE,
       !.processes = [c \in DOMAIN s.processes |->
                        IF s.processes[c].alive /\ c \notin stubborn
                        THEN Process(FALSE, "-15")
                        ELSE s.processes[c]]]

\* stop_all: running = False; terminate() every live worker; join(timeout=10)
\* each and kill() those still alive (`stubborn`), then join().
stop_all(s, stubborn) ==
    [s EXCEPT
       !.running = FALSE,
       !.processes = [c \in DOMAIN s.processes |->
                        IF s.processes[c].alive
                        THEN Process(FALSE, IF c \in stubborn THEN "-9" ELSE "-15")
                        ELSE s.processes[c]]]

\* _signal_handler on SIGINT / SIGTERM: stop_all(), then sys.exit(0); a
\* further signal before sys.exit runs the handler again.
OrchSignal ==
    /\ variant = "orchestrator"
    /\ sup.at # "exited"
    /\ sup.stops < MaxStops
    /\ \E stubborn \in SUBSET Cities :
         sup' = [stop_all(sup, stubborn) EXCEPT !.at = "stopping", !.stops = @ + 1]
    /\ OrchFrame

\* sys.exit(0) of _signal_handler
OrchExit ==
    /\ variant = "orchestrator"
    /\ sup.at = "stopping"
    /\ sup' = [sup EXCEPT !.at = "exited"]
    /\ OrchFrame

NextOrch ==
    \/ OrchMain \/ StartAll \/ Launch \/ JoinAll \/ MonitorPass \/ MonitorVisit
    \/ OrchSignal \/ OrchExit
    \/ \E c \in Cities : WorkerExit(c)

SpecOrch == InitOrch /\ [][NextOrch]_vars

\* Seconds since start_all began, at least: its delays, the monitor's sleeps.
Clock ==
    Len(SelectSeq(sup.events, LAMBDA e : e[1] = "sleep")) * delay_between_starts
    + sup.passes * MonitorInterval
    + (sup.restarts[1] + sup.restarts[2]) * RestartDelay

\* ------------------------------------------- multi-account: the supervisor step by step
\* The orchestrator again, with _start_city_process split where a signal can
\* fall: process.start() first, self.processes[city_id] = process second,
\* and with the sleeps of start_all and of the monitor as places of their
\* own. Each city starts at most MaxStarts workers.
MaxStarts == 3

\* The worker that process.start() has started and no handle names yet;
\* serial counts the workers started for the city, starts[c] being the last
\* one started and handle[c] the one self.processes[c] names.
NoPending == [city_id |-> 0, serial |-> 0, process |-> Process(FALSE, None)]

InitSup ==
    /\ variant = "supervisor"
    /\ db = [columns |-> {}, rows |-> {}]
    /\ pc = [w \in Workers |-> "off"]
    /\ InitCommon
    /\ probe = NoProbe
    /\ \E accounts \in ListsOver(Cities, 2), once \in BOOLEAN :
         sup = [kind |-> "supervisor", accounts |-> accounts, once |-> once,
                processes |-> <<>>, running |-> FALSE,
                pending |-> NoPending,
                replaced |-> [c \in Cities |-> 0],
                starts |-> [c \in Cities |-> 0],
                handle |-> [c \in Cities |-> 0],
                at |-> "start_all", pos |-> 0, ret |-> None, stopped |-> FALSE]

SupFrame ==
    UNCHANGED <<variant, probe, db, db0, files, pc, session, filtered, idx, filepath,
                downloaded_count, cycles, crashes, hist, stat, call, kill_now>>

\* main(): sys.exit(1) without accounts; start_all up to its loop.
SupStartAll ==
    /\ variant = "supervisor"
    /\ sup.at = "start_all"
    /\ IF sup.accounts = <<>>
       THEN sup' = [sup EXCEPT !.at = "exited"]
       ELSE sup' = [sup EXCEPT !.running = TRUE, !.at = "start", !.pos = 1,
                               !.ret = "start_all"]
    /\ SupFrame

\* _start_city_process: multiprocessing.Process(...), process.start()
SupProcessStart ==
    /\ variant = "supervisor"
    /\ sup.at = "start"
    /\ sup.starts[sup.accounts[sup.pos]] < MaxStarts
    /\ sup' = [sup EXCEPT
          !.pending = [city_id |-> sup.accounts[sup.pos],
                       serial |-> sup.starts[sup.accounts[sup.pos]] + 1,
                       process |-> Process(TRUE, None)],
          !.starts[sup.accounts[sup.pos]] = @ + 1,
          !.at = "record"]
    /\ SupFrame

\* Where the supervisor goes once a worker's handle is stored: the stagger
\* delay or the end of start_all, or the next worker of the monitor's pass.
AfterRecord(s) ==
    IF s.ret = "start_all"
    THEN IF stagger(s.pos - 1, Len(s.accounts)) # <<>>
         THEN [at |-> "stagger", pos |-> s.pos]
         ELSE [at |-> AfterStart(s.once), pos |-> 0]
    ELSE IF s.pos < Len(s.accounts)
         THEN [at |-> "visit", pos |-> s.pos + 1]
         ELSE [at |-> "monitor", pos |-> 0]

\* _start_city_process: self.processes[account.city_id] = process
SupRecord ==
    /\ variant = "supervisor"
    /\ sup.at = "record"
    /\ LET city_id == sup.pending.city_id
           live    == city_id \in DOMAIN sup.processes /\ sup.processes[city_id].alive
       IN  sup' = [sup EXCEPT
              !.processes = (city_id :> sup.pending.process) @@ @,
              !.replaced[city_id] = IF live THEN @ + 1 ELSE @,
              !.handle[city_id] = sup.pending.serial,
              !.pending = NoPending,
              !.at = AfterRecord(sup).at,
              !.pos = AfterRecord(sup).pos]
    /\ SupFrame

\* start_all: time.sleep(delay_between_starts) is over
SupStagger ==
    /\ variant = "supervisor"
    /\ sup.at = "stagger"
    /\ sup' = [sup EXCEPT !.at = "start", !.pos = @ + 1]
    /\ SupFrame

\* main() in --once mode: process.join() for every worker, then the end.
SupJoin ==
    /\ variant = "supervisor"
    /\ sup.at = "join"
    /\ \A c \in DOMAIN sup.processes : ~sup.processes[c].alive
    /\ sup' = [sup EXCEPT !.at = "exited"]
    /\ SupFrame

\* monitor_processes: time.sleep(30) is over and a pass begins.
SupMonitorPass ==
    /\ variant = "supervisor"
    /\ sup.at = "monitor"
    /\ sup' = [sup EXCEPT !.at = "visit", !.pos = 1]
    /\ SupFrame

\* monitor_processes: the test of one worker of the pass.
SupVisit ==
    /\ variant = "supervisor"
    /\ sup.at = "visit"
    /\ IF needs_restart(sup.processes[sup.accounts[sup.pos]])
       THEN sup' = [sup EXCEPT !.at = "delay"]
       ELSE sup' = [sup EXCEPT !.at = AfterRecord([sup EXCEPT !.ret = "monitor"]).at,
                               !.pos = AfterRecord([sup EXCEPT !.ret = "monitor"]).pos]
    /\ SupFrame

\* monitor_processes: time.sleep(10) is over, _start_city_process follows.
SupDelay ==
    /\ variant = "supervisor"
    /\ sup.at = "delay"
    /\ sup' = [sup EXCEPT !.at = "start", !.ret = "monitor"]
    /\ SupFrame

\* A worker a handle names ends by itself.
SupWorkerExit(c) ==
    /\ variant = "supervisor"
    /\ sup.at # "exited"
    /\ c \in DOMAIN sup.processes
    /\ sup.processes[c].alive
    /\ \E code \in ExitCodes :
         sup' = [sup EXCEPT !.processes[c] = Process(FALSE, code)]
    /\ SupFrame

\* The worker just started ends before its handle is stored.
SupPendingExit ==
    /\ variant = "supervisor"
    /\ sup.at = "record"
    /\ sup.pending.process.alive
    /\ \E code \in ExitCodes :
         sup' = [sup EXCEPT !.pending.process = Process(FALSE, code)]
    /\ SupFrame

\* _signal_handler, wherever the main thread stands: stop_all() over
\* self.processes, then sys.exit(0).
SupSignal ==
    /\ variant = "supervisor"
    /\ sup.at # "exited"
    /\ \E stubborn \in SUBSET Cities :
         sup' = [stop_all(sup, stubborn) EXCEPT !.at = "exited", !.stopped = TRUE]
    /\ SupFrame

NextSup ==
    \/ SupStartAll \/ SupProcessStart \/ SupRecord \/ SupStagger \/ SupJoin
    \/ SupMonitorPass \/ SupVisit \/ SupDelay \/ SupPendingExit \/ SupSignal
    \/ \E c \in Cities : SupWorkerExit(c)

SpecSup == InitSup /\ [][NextSup]_vars

\* ------------------------------------------- filter_records on its own
MaxList == 4

\* Calls as the provider lists them: recordings of 60, 180, 181 and 3600
\* seconds on incoming calls, a recorded outgoing call, a call without a
\* recording, and a recording of zero seconds.
FilterCalls ==
    {[id |-> "f1", dateTime |-> "d", image |-> "group", callerNumber |-> <<"7">>,
      record |-> [callId |-> "f1", duration |-> 60]],
     [id |-> "f2", dateTime |-> "d", image |-> "group", callerNumber |-> <<"7">>,
      record |-> [callId |-> "f2", duration |-> 180]],
     [id |-> "f3", dateTime |-> "d", image |-> "group_skip", callerNumber |-> <<"7">>,
      record |-> [callId |-> "f3", duration |-> 181]],
     [id |-> "f4", dateTime |-> "d", image |-> "group", callerNumber |-> <<"7">>,
      record |-> [callId |-> "f4", duration |-> 3600]],
     [id |-> "f5", dateTime |-> "d", image |-> "out", callerNumber |-> <<"7">>,
      record |-> [callId |-> "f5", duration |-> 200]],
     [id |-> "f6", dateTime |-> "d", image |-> "group", callerNumber |-> <<"7">>,
      record |-> NoRecord],
     [id |-> "f7", dateTime |-> "d", image |-> "out", callerNumber |-> <<"7">>,
      record |-> [callId |-> "f7", duration |-> 0]]}

\* MIN_DURATION_SECONDS and ONLY_INCOMING as the environment can set them.
MinDurations == {0, min_duration}

InitFilter ==
    /\ variant = "filter"
    /\ db = [columns |-> {}, rows |-> {}]
    /\ pc = [w \in Workers |-> "off"]
    /\ InitCommon
    /\ sup = NoSup
    /\ \E items \in ListsOver(FilterCalls, MaxList), m \in MinDurations, o \in BOOLEAN :
         probe = [kind |-> "filter",
                  records |-> [i \in 1..Len(items) |-> CallRecord(items[i])],
                  min_duration |-> m, only_incoming |-> o,
                  done |-> FALSE, result |-> <<>>]

\* filtered = self.filter_records(records)
FilterApply ==
    /\ variant = "filter"
    /\ ~probe.done
    /\ probe' = [probe EXCEPT
          !.done = TRUE,
          !.result = filter_records_policy(probe.records, probe.min_duration,
                                           probe.only_incoming)]
    /\ UNCHANGED <<variant, sup, db, db0, files, pc, session, filtered, idx, filepath,
                   downloaded_count, cycles, crashes, hist, stat, call, kill_now>>

NextFilter == FilterApply

SpecFilter == InitFilter /\ [][NextFilter]_vars

\* ------------------------------------------- the ledger on its own
\* The two DatabaseManager classes driven directly: any record, any path
\* and size, in any order, MaxCommits times.
MaxCommits == 3

LedgerPaths == {<<"downloads", "a.mp3">>, <<"downloads", "b.mp3">>}
LedgerSizes == {0, 5243, 131072, Megabyte}
LedgerIds == {d.id : d \in RawCalls}

NoCommit == [id |-> None, call_id |-> None, path |-> NoPath, size |-> 0, before |-> {}]

InitLedger ==
    /\ variant = "ledger"
    /\ db = [columns |-> {}, rows |-> {}]
    /\ pc = [w \in Workers |-> "off"]
    /\ InitCommon
    /\ sup = NoSup
    /\ \E flavour \in {"rostelcom", "svyaztransit"} :
         probe = [kind |-> "ledger", flavour |-> flavour,
                  rows |-> IF flavour = "rostelcom"
                           THEN init_db([columns |-> {}, rows |-> {}]).rows
                           ELSE st_init_db([columns |-> {}, rows |-> {}]).rows,
                  n |-> 0, ids |-> {},
                  sizes |-> [i \in LedgerIds |-> 0],
                  last |-> NoCommit]

LedgerFrame ==
    UNCHANGED <<variant, sup, db, db0, files, pc, session, filtered, idx, filepath,
                downloaded_count, cycles, crashes, hist, stat, call, kill_now>>

\* db.mark_record_downloaded(record, local_path, file_size, ...) of the
\* rostelcom ledger
LedgerCommit ==
    /\ variant = "ledger"
    /\ probe.flavour = "rostelcom"
    /\ probe.n < MaxCommits
    /\ \E data \in RawCalls, path \in LedgerPaths, size \in LedgerSizes :
         LET record == CallRecord(data)
         IN  probe' = [probe EXCEPT
                 !.rows = mark_record_downloaded(@, record, path, size, None, None),
                 !.n = @ + 1,
                 !.ids = @ \cup {record.id},
                 !.sizes = [@ EXCEPT ![record.id] = size],
                 !.last = [id |-> record.id, call_id |-> record.record_call_id,
                           path |-> path, size |-> size, before |-> probe.rows]]
    /\ LedgerFrame

\* db.mark_record_downloaded(record, local_path) of the svyaztransit ledger
STLedgerCommit ==
    /\ variant = "ledger"
    /\ probe.flavour = "svyaztransit"
    /\ probe.n < MaxCommits
    /\ \E data \in STCalls, path \in LedgerPaths :
         LET record == STCallRecord(data)
         IN  probe' = [probe EXCEPT
                 !.rows = st_mark_record_downloaded(@, record, path),
                 !.n = @ + 1,
                 !.ids = @ \cup {record.id},
                 !.last = [id |-> record.id, call_id |-> None,
                           path |-> path, size |-> 0, before |-> probe.rows]]
    /\ LedgerFrame

NextLedger == LedgerCommit \/ STLedgerCommit

SpecLedger == InitLedger /\ [][NextLedger]_vars

\* ------------------------------------------- file names on their own
\* get_readable_filename and generate_readable_filename applied to one
\* record each; the fields come from the history payloads, null included.
LongNumber ==
    <<"+", "7", " ", "9", "9", "9", "1", "2", "3", "4", "5", "6", "7", "8", "9", "0", "1", "2", "3">>

NameCalls ==
    [id : {"c1", "c2"},
     dateTime : {"2025-01-15 14:30:45+05:00", "yesterday", "", None},
     image : {"group"},
     callerNumber : {<<"+", "7", "9", "9">>, <<"7", " ", "9">>, <<>>, LongNumber},
     record : [callId : {"k1"}, duration : {0, 201}]]

STNameCalls ==
    [Id : {"c1", "c2"},
     StartTime : {"/Date(1758446374000)/", "/Date(soon)/", "", None},
     CallDirection : {"In"},
     FileName : {"a.wav", "", None},
     CallParties : {<<"7", "9", " ", ",", " ", "1", "5">>, <<>>, <<" ", ",", "1">>},
     TotalSeconds : {200}]

InitNames ==
    /\ variant = "names"
    /\ db = [columns |-> {}, rows |-> {}]
    /\ pc = [w \in Workers |-> "off"]
    /\ InitCommon
    /\ sup = NoSup
    /\ \/ \E data \in NameCalls :
            probe = [kind |-> "names", flavour |-> "rostelcom", id |-> data.id,
                     timestamp |-> data.dateTime, record |-> CallRecord(data),
                     done |-> FALSE, result |-> <<>>]
       \/ \E data \in STNameCalls :
            probe = [kind |-> "names", flavour |-> "svyaztransit", id |-> data.Id,
                     timestamp |-> data.StartTime, record |-> STCallRecord(data),
                     done |-> FALSE, result |-> <<>>]

NamesFrame ==
    UNCHANGED <<variant, sup, db, db0, files, pc, session, filtered, idx, filepath,
                downloaded_count, cycles, crashes, hist, stat, call, kill_now>>

\* filename = record.get_readable_filename()
ReadableName ==
    /\ variant = "names"
    /\ probe.flavour = "rostelcom"
    /\ ~probe.done
    /\ probe' = [probe EXCEPT !.done = TRUE,
                              !.result = get_readable_filename(probe.record)]
    /\ NamesFrame

\* filename = self.generate_readable_filename(record)
STReadableName ==
    /\ variant = "names"
    /\ probe.flavour = "svyaztransit"
    /\ ~probe.done
    /\ probe' = [probe EXCEPT !.done = TRUE,
                              !.result = generate_readable_filename(probe.record)]
    /\ NamesFrame

NextNames == ReadableName \/ STReadableName

SpecNames == InitNames /\ [][NextNames]_vars

\* ------------------------------------------- the download directory on its own
\* download_record applied to answered calls of one history page, up to
\* MaxDownloads times: the file each 200 response is written to.
MaxDownloads == 3

DirCalls ==
    {[id |-> "c1", dateTime |-> "2025-01-15 14:30:45+05:00", image |-> "group",
      callerNumber |-> <<"+", "7", "9", "9">>,
      record |-> [callId |-> "k1", duration |-> 200]],
     [id |-> "c3", dateTime |-> "yesterday", image |-> "group",
      callerNumber |-> <<"7", "9", "9">>,
      record |-> [callId |-> Absent, duration |-> 200]],
     [id |-> "c5", dateTime |-> "2025-01-15 14:30:45+05:00", image |-> "group_skip",
      callerNumber |-> <<"+", "7", " ", "9", "9">>,
      record |-> [callId |-> "k5", duration |-> 200]],
     [id |-> "c6", dateTime |-> "2025-01-15 14:30:45+05:00", image |-> "group",
      callerNumber |-> <<"7", "9", "9">>,
      record |-> [callId |-> "k6", duration |-> 201]],
     [id |-> "c7", dateTime |-> "tomorrow", image |-> "group",
      callerNumber |-> <<"7", "9", "9">>,
      record |-> [callId |-> "k7", duration |-> 200]]}

InitDir ==
    /\ variant = "dir"
    /\ db = [columns |-> {}, rows |-> {}]
    /\ pc = [w \in Workers |-> "off"]
    /\ InitCommon
    /\ sup = NoSup
    /\ probe = [kind |-> "dir", files |-> {}, completed |-> {}, n |-> 0,
                last |-> [id |-> None, path |-> NoPath]]

\* open(filepath, 'wb') and f.write(response.content): the file at the path
\* is created or cut to nothing, then holds this record's payload.
WriteFile(dir, path, id) ==
    {f \in dir : f.path # path} \cup {[path |-> path, payload |-> id]}

\* filepath = self.download_record(record), for a record with a call id
DirDownload ==
    /\ variant = "dir"
    /\ probe.n < MaxDownloads
    /\ \E data \in DirCalls, ok200 \in BOOLEAN :
         LET record == CallRecord(data)
             path   == Path(get_readable_filename(record))
             result == download_result(ok200, TRUE, path)
         IN  probe' = [probe EXCEPT
                 !.files = IF ok200 THEN WriteFile(@, path, record.id) ELSE @,
                 !.completed = IF result # NoPath THEN @ \cup {record.id} ELSE @,
                 !.n = @ + 1,
                 !.last = [id |-> record.id, path |-> result]]
    /\ UNCHANGED <<variant, sup, db, db0, files, pc, session, filtered, idx, filepath,
                   downloaded_count, cycles, crashes, hist, stat, call, kill_now>>

NextDir == DirDownload

SpecDir == InitDir /\ [][NextDir]_vars

\* ------------------------------------------- the auth objects on their own
\* CloudPBXAuth and StranzitAuth with their credentials: what the
\* constructor and each method keep of the login, password and domain
\* they are given.
Logins    == {None, "admin"}
Passwords == {None, "", "pw"}
Domains   == {None, "d.rt.ru"}

\* CloudPBXAuth.__init__: the object [login, domain, _password, s], s being
\* the session state.
CloudPBXAuth(login, password, domain) ==
    [login |-> login, domain |-> domain, _password |-> None, s |-> NewSession]

\* StranzitAuth.__init__: the same object without a domain.
StranzitAuth(username, password) ==
    [login |-> username, domain |-> None, _password |-> None, s |-> NewSession]

\* all([_login, password, _domain]) ignoring the password.
CredentialsGiven_no_password(obj, login, password, domain) ==
    /\ Truthy(IF Truthy(login) THEN login ELSE obj.login)
    /\ Truthy(IF Truthy(domain) THEN domain ELSE obj.domain)

\* authenticate: _login = login or self.login, _domain = domain or
\* self.domain, all([_login, password, _domain])
CredentialsGiven(obj, login, password, domain) ==
    /\ Truthy(IF Truthy(login) THEN login ELSE obj.login)
    /\ Truthy(password)
    /\ Truthy(IF Truthy(domain) THEN domain ELSE obj.domain)

\* A set_credentials that keeps the password on the object.
set_credentials_keeping(obj, username, password) ==
    [obj EXCEPT !.login = username, !._password = password]

\* StranzitAuth.set_credentials
set_credentials(obj, username, password) ==
    [obj EXCEPT !.login = username]

\* StranzitAuth.login with its arguments: the username is stored first,
\* then a missing password or username raises ValueError.
\* Result: [ret, raised, obj, posted].
login(obj, username, password, resp) ==
    LET named == IF Truthy(username) THEN [obj EXCEPT !.login = username] ELSE obj
    IN  IF ~Truthy(password) \/ ~Truthy(named.login)
        THEN [ret |-> FALSE, raised |-> TRUE, obj |-> named, posted |-> FALSE]
        ELSE [ret |-> st_login(named.s, resp).ret, raised |-> FALSE,
              obj |-> [named EXCEPT !.s = st_login(named.s, resp).session],
              posted |-> TRUE]

\* StranzitAuth.logout: GET /Account/LogOff, then the flag; an exception of
\* the request is logged and the flag stays.
st_logout(s, resp) ==
    IF resp = Exc THEN s ELSE [s EXCEPT !.is_authenticated = FALSE]

\* CloudPBXAuth.check_auth_status
check_auth_status(s) == s.is_authenticated /\ s.token # None

NoLast ==
    [method |-> None, login |-> None, password |-> None, domain |-> None,
     stored_login |-> None, stored_domain |-> None,
     raised |-> FALSE, posted |-> FALSE, ok |-> FALSE,
     before |-> NewSession, token |-> None]

InitCreds ==
    /\ variant = "creds"
    /\ db = [columns |-> {}, rows |-> {}]
    /\ pc = [w \in Workers |-> "off"]
    /\ InitCommon
    /\ sup = NoSup
    /\ \E l \in Logins, pw \in Passwords :
         \/ \E d \in Domains :
              probe = [kind |-> "creds", flavour |-> "cloudpbx",
                       obj |-> CloudPBXAuth(l, pw, d), last |-> NoLast]
         \/ probe = [kind |-> "creds", flavour |-> "stranzit",
                     obj |-> StranzitAuth(l, pw), last |-> NoLast]

CredsFrame ==
    UNCHANGED <<variant, sup, db, db0, files, pc, session, filtered, idx, filepath,
                downloaded_count, cycles, crashes, hist, stat, call, kill_now>>

LastOf(method, l, pw, d, raised, posted, ok, token) ==
    [method |-> method, login |-> l, password |-> pw, domain |-> d,
     stored_login |-> probe.obj.login, stored_domain |-> probe.obj.domain,
     raised |-> raised, posted |-> posted, ok |-> ok,
     before |-> probe.obj.s, token |-> token]

\* auth.authenticate(login, password, domain)
CAuthenticate ==
    /\ variant = "creds"
    /\ probe.flavour = "cloudpbx"
    /\ \E l \in Logins, pw \in Passwords, d \in Domains, resp \in AuthResponses :
         LET a == authenticate(probe.obj.s, CredentialsGiven(probe.obj, l, pw, d), resp)
         IN  probe' = [probe EXCEPT
                 !.obj.s = a.session,
                 !.last = LastOf("authenticate", l, pw, d, a.raised, a.posted, a.ret,
                                 IF a.ret THEN resp.token ELSE None)]
    /\ CredsFrame

\* auth.refresh_access_token()
CRefresh ==
    /\ variant = "creds"
    /\ probe.flavour = "cloudpbx"
    /\ \E resp \in RefreshResponses :
         LET r == refresh_access_token(probe.obj.s, resp)
         IN  probe' = [probe EXCEPT
                 !.obj.s = r.session,
                 !.last = LastOf("refresh", None, None, None, FALSE, r.posted, r.ok, None)]
    /\ CredsFrame

\* auth.logout()
CLogout ==
    /\ variant = "creds"
    /\ probe.flavour = "cloudpbx"
    /\ probe' = [probe EXCEPT
            !.obj.s = logout(@),
            !.last = LastOf("logout", None, None, None, FALSE, FALSE, TRUE, None)]
    /\ CredsFrame

\* auth.get(endpoint) / auth.post(endpoint)
CRequest ==
    /\ variant = "creds"
    /\ probe.flavour = "cloudpbx"
    /\ \E method \in {"get", "post"}, p \in Patterns :
         LET g == IF method = "get" THEN get(probe.obj.s, p) ELSE post(probe.obj.s, p)
         IN  probe' = [probe EXCEPT
                 !.obj.s = g.session,
                 !.last = LastOf(method, None, None, None, g.raised = "ValueError",
                                 g.sent # <<>>, g.raised = None, None)]
    /\ CredsFrame

\* auth.set_credentials(username, password)
StSetCredentials ==
    /\ variant = "creds"
    /\ probe.flavour = "stranzit"
    /\ \E l \in Logins, pw \in Passwords :
         probe' = [probe EXCEPT
             !.obj = set_credentials(@, l, pw),
             !.last = LastOf("set_credentials", l, pw, None, FALSE, FALSE, TRUE, None)]
    /\ CredsFrame

\* auth.login(username, password)
StLogin ==
    /\ variant = "creds"
    /\ probe.flavour = "stranzit"
    /\ \E l \in Logins, pw \in Passwords, resp \in {"200", "401", Exc} :
         LET a == login(probe.obj, l, pw, resp)
         IN  probe' = [probe EXCEPT
                 !.obj = a.obj,
                 !.last = LastOf("authenticate", l, pw, None, a.raised, a.posted, a.ret, None)]
    /\ CredsFrame

\* auth.logout() of StranzitAuth
StLogout ==
    /\ variant = "creds"
    /\ probe.flavour = "stranzit"
    /\ \E resp \in {"200", Exc} :
         probe' = [probe EXCEPT
             !.obj.s = st_logout(@, resp),
             !.last = LastOf("logout", None, None, None, FALSE, TRUE, resp # Exc, None)]
    /\ CredsFrame

NextCreds ==
    \/ CAuthenticate \/ CRefresh \/ CLogout \/ CRequest
    \/ StSetCredentials \/ StLogin \/ StLogout

SpecCreds == InitCreds /\ [][NextCreds]_vars

\* ------------------------------------------- process_new_records on its own
\* The download loop of one cycle over a fetched list of up to MaxBatch
\* records, one iteration per step: the dedup check, download_record, the
\* commit and the pause, with what happened appended to probe.events.
MaxBatch == 3

\* The svyaztransit page: c4 is another call of the same second, party and
\* direction as c1.
LoopSTCalls ==
    STCalls \cup
    {[Id |-> "c4", StartTime |-> "/Date(1758446374000)/", CallDirection |-> "In",
      FileName |-> "d.wav", CallParties |-> <<"7", "9", " ", ",", " ", "1", "5">>,
      TotalSeconds |-> 300]}

\* The path an earlier release of the watcher stored for a record.
OldPath(record) == Path(<<WavToMp3(record.file_name)>>)

Event(e, id, known, sent) == [e |-> e, id |-> id, known |-> known, sent |-> sent]

InitLoop ==
    /\ variant = "loop"
    /\ db = [columns |-> {}, rows |-> {}]
    /\ pc = [w \in Workers |-> "off"]
    /\ InitCommon
    /\ sup = NoSup
    /\ \/ \E items \in ListsOver(DirCalls, MaxBatch) :
            probe = [kind |-> "loop", flavour |-> "rostelcom",
                     records |-> [i \in 1..Len(items) |-> CallRecord(items[i])],
                     i |-> 1, rows |-> {}, events |-> <<>>, downloaded_count |-> 0]
       \/ \E items \in ListsOver(LoopSTCalls, MaxBatch), old \in SUBSET {"c1"} :
            probe = [kind |-> "loop", flavour |-> "svyaztransit",
                     records |-> [i \in 1..Len(items) |-> STCallRecord(items[i])],
                     i |-> 1,
                     rows |-> {STRow(STCallRecord(d), OldPath(STCallRecord(d))) :
                                 d \in {x \in STCalls : x.Id \in old}},
                     events |-> <<>>, downloaded_count |-> 0]

LoopFrame ==
    UNCHANGED <<variant, sup, db, db0, files, pc, session, filtered, idx, filepath,
                downloaded_count, cycles, crashes, hist, stat, call, kill_now>>

\* One iteration of rostelcom process_new_records
LoopRecord ==
    /\ variant = "loop"
    /\ probe.flavour = "rostelcom"
    /\ probe.i <= Len(probe.records)
    /\ LET record == probe.records[probe.i]
           known  == \E r \in probe.rows : r.id = record.id
           path   == Path(get_readable_filename(record))
       IN  IF is_record_downloaded(probe.rows, record.record_call_id)
           THEN probe' = [probe EXCEPT
                    !.i = @ + 1,
                    !.events = Append(@, Event("skip", record.id, known, FALSE))]
           ELSE \E ok200 \in BOOLEAN, written \in BOOLEAN :
                  LET sent     == record.record_call_id # None
                      filepath_ == IF sent THEN download_result(ok200, written, path)
                                   ELSE NoPath
                      tried    == Append(probe.events,
                                         Event("download", record.id, known, sent))
                  IN  IF filepath_ # NoPath
                      THEN probe' = [probe EXCEPT
                               !.i = @ + 1,
                               !.rows = mark_record_downloaded(@, record, filepath_,
                                            PayloadSize(record), None, None),
                               !.downloaded_count = @ + 1,
                               !.events = Append(tried,
                                              Event("pause", record.id, known, FALSE))]
                      ELSE probe' = [probe EXCEPT !.i = @ + 1, !.events = tried]
    /\ LoopFrame

\* One iteration of svyaztransit process_new_records
STLoopRecord ==
    /\ variant = "loop"
    /\ probe.flavour = "svyaztransit"
    /\ probe.i <= Len(probe.records)
    /\ LET record == probe.records[probe.i]
           known  == \E r \in probe.rows : r.id = record.id
           path   == Path(generate_readable_filename(record))
       IN  IF st_is_record_downloaded(probe.rows, path)
           THEN probe' = [probe EXCEPT
                    !.i = @ + 1,
                    !.events = Append(@, Event("skip", record.id, known, FALSE))]
           ELSE \E ok200 \in BOOLEAN, written \in BOOLEAN :
                  LET sent     == record.file_name # ""
                      filepath_ == IF sent THEN download_result(ok200, written, path)
                                   ELSE NoPath
                      tried    == Append(probe.events,
                                         Event("download", record.id, known, sent))
                  IN  IF filepath_ # NoPath
                      THEN probe' = [probe EXCEPT
                               !.i = @ + 1,
                               !.rows = st_mark_record_downloaded(@, record, filepath_),
                               !.downloaded_count = @ + 1,
                               !.events = Append(tried,
                                              Event("pause", record.id, known, FALSE))]
                      ELSE probe' = [probe EXCEPT !.i = @ + 1, !.events = tried]
    /\ LoopFrame

NextLoop == LoopRecord \/ STLoopRecord

SpecLoop == InitLoop /\ [][NextLoop]_vars

\* ------------------------------------------- svyaztransit: WatcherRestarter
\* The restarter of auto_restart.py over up to MaxChecks calls of
\* check_and_restart that find no watcher. Time is in seconds; between two
\* checks the loop sleeps check_interval, and the checks in between that find
\* the watcher running change nothing but the time.
MaxChecks == 12

check_interval == 30
restart_delay == 5
Hour == 3600
Day == 86400

NoTime == -1      \* last_restart_time is None

\* The pauses between two checks that end in a restart attempt: one
\* interval, an hour of intervals, a day and one interval.
Idle == {check_interval, 120 * check_interval, 2881 * check_interval}

\* What os.path.exists and subprocess.Popen find at script_path.
Scripts == {"ok", "missing", "not_executable"}

\* timedelta.seconds: the seconds within the day, the days left out.
Seconds(delta) == delta % Day

\* should_restart(): result [ret, w].
should_restart(w, now) ==
    IF /\ w.restart_count >= max_restarts_per_hour
       /\ w.last_restart_time # NoTime
       /\ Seconds(now - w.last_restart_time) < Hour
    THEN [ret |-> FALSE, w |-> w]
    ELSE [ret |-> TRUE,
          w |-> IF w.last_restart_time # NoTime /\ Seconds(now - w.last_restart_time) >= Hour
                THEN [w EXCEPT !.restart_count = 0]
                ELSE w]

\* restart_watcher(): result [ret, w, now]; ret says a watcher was launched.
restart_watcher(w, now, script) ==
    LET sr == should_restart(w, now)
    IN  IF ~sr.ret
        THEN [ret |-> FALSE, w |-> sr.w, now |-> now]
        ELSE IF script # "ok"
        THEN [ret |-> FALSE, w |-> sr.w, now |-> now + restart_delay]
        ELSE [ret |-> TRUE, now |-> now + restart_delay,
              w |-> [sr.w EXCEPT !.restart_count = @ + 1,
                                 !.last_restart_time = now + restart_delay]]

InitRestarter ==
    /\ variant = "restarter"
    /\ db = [columns |-> {}, rows |-> {}]
    /\ pc = [w \in Workers |-> "off"]
    /\ InitCommon
    /\ sup = NoSup
    /\ probe = [kind |-> "restarter",
                w |-> [restart_count |-> 0, last_restart_time |-> NoTime],
                now |-> 0, checks |-> 0, launched |-> FALSE,
                recent |-> {}]

\* check_and_restart() for a watcher that is not running, then the sleeps of
\* run() until the next such check; recent holds the launches of the 3600
\* seconds that end with the latest one.
WatcherDown ==
    /\ variant = "restarter"
    /\ probe.checks < MaxChecks
    /\ \E script \in Scripts, idle \in Idle :
         LET r == restart_watcher(probe.w, probe.now, script)
         IN  probe' = [probe EXCEPT
                 !.w = r.w,
                 !.now = r.now + idle,
                 !.checks = @ + 1,
                 !.launched = r.ret,
                 !.recent = IF r.ret
                            THEN {t \in @ \cup {r.now} : t > r.now - Hour}
                            ELSE @]
    /\ UNCHANGED <<variant, sup, db, db0, files, pc, session, filtered, idx, filepath,
                   downloaded_count, cycles, crashes, hist, stat, call, kill_now>>

NextRestarter == WatcherDown

SpecRestarter == InitRestarter /\ [][NextRestarter]_vars

\* ------------------------------------------- properties of the ledger
FilteredIds(w) == {filtered[w][i].id : i \in 1..Len(filtered[w])}

RowsOf(id) == {r \in db.rows : r.id = id}

\* The value a SELECT of column c gives for row r (NULL for a column the
\* table does not have yet).
Col(r, c) == IF c \in DOMAIN r THEN r[c] ELSE None

\* The rows written by a worker of this run (the earlier release wrote no city).
WorkerRows == {r \in db.rows : Col(r, "city_name") # None}

\* C1: when a worker's cycle meets a record whose call id is already in the
\* ledger, the worker's step issues no download request for it and changes
\* neither the ledger nor the download directory; and a cycle all of whose
\* records were in the ledger when it fetched them ends with 0 downloads.
C1_Idempotent ==
    /\ [][\A w \in Workers :
            (/\ pc[w] = "check"
             /\ \E r \in db.rows : r.call_id = Current(w).record_call_id
             /\ <<pc[w], idx[w]>> # <<pc'[w], idx'[w]>>)
            => (/\ pc'[w] # "download"
                /\ db' = db
                /\ files' = files
                /\ stat'.dl = stat.dl)]_vars
    /\ [](\A w \in Workers :
            (pc[w] = "report" /\ FilteredIds(w) \subseteq hist[w].known)
            => downloaded_count[w] = 0)

\* A cycle has gone through records that an earlier cycle committed.
C1_Witness ==
    \E w \in Workers :
        /\ pc[w] = "report"
        /\ FilteredIds(w) # {}
        /\ FilteredIds(w) \subseteq hist[w].known
        /\ FilteredIds(w) \subseteq stat.committed
        /\ downloaded_count[w] = 0

C6_CommitFollowsWrite ==
    /\ \A r \in WorkerRows : [id |-> r.id, path |-> r.local_path] \in stat.written
    /\ \A id \in stat.committed : stat.dl[id] >= 1

\* A row was committed after a failed write of the same recording.
C6_Witness ==
    \E r \in WorkerRows :
        /\ [id |-> r.id, path |-> r.local_path] \in stat.written
        /\ \E id \in RecordIds \ {r.id} : stat.dl[id] = 0 /\ RowsOf(id) = {}
        /\ \E w \in Workers : pc[w] = "report" /\ Len(filtered[w]) = 2

\* C3: over any run, two workers on one ledger included, one id is
\* downloaded successfully at most once.
C3_AtMostOneDownload ==
    \A id \in RecordIds : stat.dl[id] <= 1

\* C4: every record a worker's cycle has downloaded is in the ledger before
\* the cycle examines the next record; when the worker crashes, only the
\* record whose commit was in flight can be missing.
C4_CrashSafe ==
    \A w \in Workers : \A id \in hist[w].done :
        \/ RowsOf(id) # {}
        \/ pc[w] = "commit" /\ Current(w).id = id
        \/ pc[w] = "crashed" /\ hist[w].cur = id

\* A worker crashed at the commit of its second download; the first is kept.
C4_Witness ==
    \E w \in Workers :
        /\ pc[w] = "crashed"
        /\ hist[w].at = "commit"
        /\ hist[w].cur \in hist[w].done
        /\ \E id \in hist[w].done \ {hist[w].cur} : RowsOf(id) # {}

\* Row r2 is row r with NULL in the columns r does not have.
Extends(r2, r) ==
    /\ DOMAIN r \subseteq DOMAIN r2
    /\ \A c \in DOMAIN r : r2[c] = r[c]
    /\ \A c \in DOMAIN r2 \ DOMAIN r : r2[c] = None

\* C5: a (re)start of a worker, init_db and its migration included, keeps
\* every row as it was; the ids in the ledger at a restart stay in it, and
\* the rows of the earlier release stay with NULL in the added columns.
C5_Durable ==
    /\ [][\A w \in Workers :
            (pc[w] \in {"new", "crashed", "ended"} /\ pc'[w] \in {"idle", "loop"})
            => (/\ \A r \in db.rows : \E r2 \in db'.rows : Extends(r2, r)
                /\ Cardinality(db'.rows) = Cardinality(db.rows))]_vars
    /\ [](/\ \A r \in db0 : \E r2 \in db.rows : Extends(r2, r)
          /\ \A id \in stat.restarted : RowsOf(id) # {})

\* After a restart a cycle met a row of the earlier release and a row
\* committed before the restart, and skipped both.
C5_Witness ==
    \E w \in Workers :
        /\ pc[w] = "report"
        /\ hist[w].known \cap stat.restarted \cap stat.committed # {}
        /\ hist[w].known \cap {r.id : r \in db0} # {}
        /\ downloaded_count[w] = 0
        /\ \E r \in db.rows : "city_name" \in DOMAIN r /\ r.city_name = None

\* C7: no data request goes out from a session whose authenticated flag is
\* false: a worker past its authentication step has the flag set, and a
\* get/post on an unauthenticated session raises before sending.
C7_NoRequestUnauthenticated ==
    /\ ~stat.unauth
    /\ \A w \in Workers :
         pc[w] \in {"fetch", "check", "download", "commit"} => session[w].is_authenticated
    /\ (call.method # None /\ ~call.before.is_authenticated)
         => (call.result.sent = <<>> /\ call.result.raised = "ValueError")

\* A client called get on a session that had been authenticated and logged out.
C7_Witness ==
    /\ call.method = "get"
    /\ ~call.before.is_authenticated
    /\ call.before.base_url = OtherURL
    /\ call.result.raised = "ValueError"

\* Every request the call made was answered with an authorization failure.
AllRejected ==
    /\ call.r1 = "401"
    /\ call.r2 \in {"401", None}
    /\ call.r3 \in {"401", None}
    /\ call.rr.status \in {"401", None}

C9_RenewalFailureReturned ==
    (/\ call.method = "get"
     /\ call.r1 = "401"
     /\ call.r2 = "401"
     /\ \/ call.before.refresh_token = None
        \/ call.rr.status \in {"401", Exc}
        \/ call.rr.status = "200" /\ call.rr.json = "bad")
    => (/\ call.result.raised = None
        /\ call.result.response = Response("401", 2)
        /\ Len(call.result.sent) = 2
        /\ call.before.refresh_token = None => call.result.renewal_posts = 0)

\* A get on a session without a refresh token was answered 401 twice.
C9_Witness ==
    /\ call.method = "get"
    /\ call.r1 = "401"
    /\ call.r2 = "401"
    /\ call.before.refresh_token = None
    /\ call.before.is_authenticated
    /\ call.result.renewals = 1

\* C10: no exception raised inside a poll cycle (login, fetch, dedup check,
\* download, commit, statistics) ends the controller loop of a watcher: the
\* loop is left only at its loop condition.
C10_LoopSurvivesCycle ==
    \A w \in Workers : pc[w] = "ended" => hist[w].at = "loop"

\* C11: once the shutdown flag is set the watcher sends no further fetch
\* request and no further download request: a step taken with kill_now set
\* is never the fetch step, nor the download step of a record with a file.
C11_NoWorkAfterSignal ==
    [][\A w \in Workers :
          (variant = "svyaztransit" /\ kill_now) =>
              /\ pc[w] = "fetch" => pc'[w] \in {"fetch", "crashed"}
              /\ (pc[w] = "download" /\ Current(w).file_name # "")
                     => pc'[w] \in {"download", "crashed"}]_vars

Durations(records) == [i \in 1..Len(records) |-> records[i].duration_seconds]

\* C12: filter_records returns, in input order, exactly the records that have
\* a recording, last at least min_duration seconds (a record of exactly
\* min_duration seconds passes) and, when only_incoming is on, are incoming;
\* with minimum 0 and the direction filter off exactly the records with a
\* recording pass; durations 60, 180, 181, 3600 under minimum 180 give 180,
\* 181, 3600.
C12_FilterExact ==
    (probe.kind = "filter" /\ probe.done) =>
        /\ probe.result =
             SelectSeq(probe.records,
                       LAMBDA r : /\ r.has_record
                                  /\ r.duration_seconds >= probe.min_duration
                                  /\ probe.only_incoming =>
                                         r.direction_type \in {"group", "group_skip"})
        /\ (probe.min_duration = 0 /\ ~probe.only_incoming) =>
               probe.result = SelectSeq(probe.records, LAMBDA r : r.has_record)
        /\ (Durations(probe.records) = <<60, 180, 181, 3600>> /\ probe.min_duration = 180) =>
               Durations(probe.result) = <<180, 181, 3600>>

\* The four durations of the example were filtered under minimum 180 with the
\* direction filter on.
C12_Witness ==
    /\ probe.kind = "filter"
    /\ probe.done
    /\ Durations(probe.records) = <<60, 180, 181, 3600>>
    /\ probe.min_duration = 180
    /\ probe.only_incoming
    /\ Len(probe.result) = 3

\* C13: within one hour a supervisor restarts a crashing worker at most
\* max_restarts_per_hour times and then leaves it stopped.
C13_RestartCeiling ==
    (sup.kind = "orchestrator" /\ Clock < 3600) =>
        \A c \in Cities : sup.restarts[c] <= max_restarts_per_hour

\* The step is the monitor's visit of the worker at sup.pos.
IsVisit ==
    /\ sup.at = "visit"
    /\ sup'.at \in {"visit", "monitor"}
    /\ sup'.pos # sup.pos

\* C14: on a monitoring pass a worker found not alive with an exit code
\* other than 0 is restarted at its visit, and no step ever restarts (or
\* otherwise changes) a worker that exited with code 0.
C14_MonitorRestartRule ==
    [][sup.kind = "orchestrator" =>
         /\ IsVisit =>
              LET c == sup.accounts[sup.pos]
              IN  (~sup.processes[c].alive /\ sup.processes[c].exitcode # "0") =>
                      /\ sup'.processes[c] = Process(TRUE, None)
                      /\ sup'.restarts[c] = sup.restarts[c] + 1
         /\ \A c \in DOMAIN sup.processes :
              (~sup.processes[c].alive /\ sup.processes[c].exitcode = "0") =>
                  /\ sup'.processes[c] = sup.processes[c]
                  /\ sup'.restarts[c] = sup.restarts[c]]_vars

\* In the second pass or later, city 1 lies dead with exit code 0 and was
\* never restarted, city 2 has been restarted and the pass has gone by city 1.
C14_Witness ==
    /\ sup.kind = "orchestrator"
    /\ sup.at = "visit"
    /\ sup.pos = 2
    /\ sup.passes >= 2
    /\ sup.processes[1] = Process(FALSE, "0")
    /\ sup.restarts[1] = 0
    /\ sup.restarts[2] >= 1

\* The step is a run of stop_all.
IsStopAll == sup'.stops = sup.stops + 1

\* C15: when stop_all has returned no worker handle is alive and the running
\* flag is false; a run of stop_all that finds no live worker and the flag
\* false (a second run, or a run before any worker was started) changes
\* neither the handles nor the flag.
C15_StopAllIdempotent ==
    /\ [](sup.kind = "orchestrator" /\ sup.stops >= 1 =>
            /\ \A c \in DOMAIN sup.processes : ~sup.processes[c].alive
            /\ ~sup.running)
    /\ [][(sup.kind = "orchestrator" /\ IsStopAll
           /\ ~sup.running /\ \A c \in DOMAIN sup.processes : ~sup.processes[c].alive) =>
              /\ sup'.processes = sup.processes
              /\ sup'.running = sup.running]_vars

\* stop_all has run twice; the first run had to kill one worker and
\* terminated another.
C15_Witness ==
    /\ sup.kind = "orchestrator"
    /\ sup.stops = 2
    /\ \E c, d \in DOMAIN sup.processes :
         /\ sup.processes[c] = Process(FALSE, "-9")
         /\ sup.processes[d] = Process(FALSE, "-15")

\* start_all has returned and the supervisor has not been stopped.
Started == sup.at \in {"join", "monitor", "visit"}

\* C16: when start_all has returned it has launched one worker per account,
\* in account order, with a wait of delay_between_starts between consecutive
\* launches and none after the last; without accounts it has launched
\* nothing and the supervisor is not running.
C16_StaggeredStart ==
    (sup.kind = "orchestrator" /\ Started) =>
        LET n == Len(sup.accounts)
        IN  /\ Len(sup.events) = IF n = 0 THEN 0 ELSE 2 * n - 1
            /\ \A i \in 1..n : sup.events[2 * i - 1] = <<"launch", sup.accounts[i]>>
            /\ \A i \in 1..(n - 1) : sup.events[2 * i] = <<"sleep", delay_between_starts>>
            /\ DOMAIN sup.processes = {sup.accounts[i] : i \in 1..n}
            /\ n = 0 => ~sup.running
            /\ n > 0 => sup.running

\* Two accounts were launched, with one delay between them.
C16_Witness ==
    /\ sup.kind = "orchestrator"
    /\ Started
    /\ sup.accounts = <<1, 2>>
    /\ Len(sup.events) = 3
    /\ sup.passes = 0

\* The cities whose own four variables are set, with a password other than
\* the placeholder.
ValidCities(env) ==
    {c \in Cities : /\ env[c].name \notin {None, ""}
                    /\ env[c].login # ""
                    /\ env[c].password \notin {"", Placeholder}
                    /\ env[c].domain # ""}

\* C17: the accounts load_city_accounts returns are those of exactly the
\* cities whose name, login, password and domain are all set and whose
\* password is not the placeholder.
C17_AcceptedIffValid ==
    (probe.kind = "tenants" /\ probe.done) =>
        {probe.accounts[i].city_id : i \in 1..Len(probe.accounts)} = ValidCities(probe.env)

\* C18: a crash of one tenant's worker changes neither another worker's
\* position or session nor the ledger, and a worker skips a record at the
\* dedup check only on a ledger row of its own tenant (or of the earlier
\* single-tenant release), never on a row another tenant's worker wrote.
C18_TenantIsolation ==
    [][\A w \in Workers :
          /\ (pc[w] # "crashed" /\ pc'[w] = "crashed") =>
                /\ db' = db
                /\ \A v \in Workers \ {w} : pc'[v] = pc[v] /\ session'[v] = session[v]
          /\ (pc[w] = "check" /\ (pc'[w] = "report" \/ idx'[w] = idx[w] + 1)) =>
                \E r \in db.rows :
                    /\ r.call_id = Current(w).record_call_id
                    /\ Col(r, "city_name") \in {CityName(w), None}]_vars

\* Where download_record writes the current record of worker w.
TargetPath(w) ==
    IF variant = "rostelcom" THEN Path(get_readable_filename(Current(w)))
    ELSE Path(generate_readable_filename(Current(w)))

\* C19: when download_record returns and has left no completely written
\* file (a status other than 200, or an exception of the request or of the
\* write), the step raises nothing and commits nothing: the ledger is
\* unchanged, the counter is unchanged and the loop goes on to the next
\* record of the same list (or to the end of the list).
C19_DownloadFailureSkips ==
    [][\A w \in Workers :
          (/\ variant \in {"rostelcom", "svyaztransit"}
           /\ pc[w] = "download"
           /\ pc'[w] \notin {"download", "crashed", "stopped"}
           /\ \/ TargetPath(w) \notin DOMAIN files'
              \/ ~files'[TargetPath(w)].complete) =>
              /\ db' = db
              /\ filtered'[w] = filtered[w]
              /\ downloaded_count'[w] = downloaded_count[w]
              /\ IF idx[w] < Len(filtered[w])
                 THEN pc'[w] = "check" /\ idx'[w] = idx[w] + 1
                 ELSE pc'[w] = "report"]_vars

\* A worker is at the second record of its list, and the first one, which
\* has a recording to ask for, was not downloaded: no file, no ledger row.
C19_Witness ==
    /\ variant = "rostelcom"
    /\ \E w \in Workers :
         /\ pc[w] = "check"
         /\ idx[w] = 2
         /\ filtered[w][1].record_call_id # None
         /\ Path(get_readable_filename(filtered[w][1])) \notin DOMAIN files
         /\ \A r \in db.rows : r.call_id # filtered[w][1].record_call_id

\* Worker w takes a step of its own.
Steps(w) == pc'[w] # pc[w] \/ idx'[w] # idx[w]

C21_FetchNeverRaises ==
    [][\A w \in Workers :
          (variant \in {"rostelcom", "svyaztransit"} /\ pc[w] = "fetch") =>
              pc'[w] \in {"fetch", "check", "sleep", "stats", "crashed", "stopped"}]_vars

C23_IsDownloadedReflectsCommits ==
    (probe.kind = "ledger" /\ probe.flavour = "rostelcom") =>
        \A id \in LedgerIds :
            is_record_downloaded(probe.rows, id) <=> id \in probe.ids

\* The sizes last committed for the ids of S, added up.
RECURSIVE CommittedSize(_, _)
CommittedSize(S, sizes) ==
    IF S = {} THEN 0
    ELSE LET i == CHOOSE x \in S : TRUE
         IN  sizes[i] + CommittedSize(S \ {i}, sizes)

C25_FilenameTotal ==
    (probe.kind = "names" /\ probe.done) =>
        /\ probe.result # NameRaised
        /\ (probe.timestamp \notin {"2025-01-15 14:30:45+05:00", "/Date(1758446374000)/"}
               => probe.result = <<"call_", probe.id, ".mp3">>)

\* C26: the download directory holds one file for each completed download:
\* every stable id whose download completed still has its own file, so two
\* such ids never share a path and no later download of another record has
\* overwritten it.
C26_OneFilePerDownload ==
    probe.kind = "dir" =>
        /\ \A id \in probe.completed : \E f \in probe.files : f.payload = id
        /\ Cardinality(probe.files) = Cardinality(probe.completed)

\* The last call was an authenticate (or login) lacking the login, the
\* password or, for CloudPBXAuth, the domain, given or stored.
MissingCredentials ==
    /\ probe.kind = "creds"
    /\ probe.last.method = "authenticate"
    /\ \/ ~Truthy(probe.last.password)
       \/ ~Truthy(probe.last.login) /\ ~Truthy(probe.last.stored_login)
       \/ /\ probe.flavour = "cloudpbx"
          /\ ~Truthy(probe.last.domain) /\ ~Truthy(probe.last.stored_domain)

\* C27: an authenticate without a non-empty login, password or domain fails
\* with an error, sends no request, and leaves the session state (token,
\* refresh token, authenticated flag, endpoint, Authorization header) as it
\* was before the call.
C27_MissingCredentialsRejected ==
    MissingCredentials =>
        /\ probe.last.raised
        /\ ~probe.last.posted
        /\ probe.obj.s = probe.last.before

\* An authenticated CloudPBXAuth session that was then asked to authenticate
\* with a login and a domain but an empty password.
C27_Witness ==
    /\ MissingCredentials
    /\ probe.flavour = "cloudpbx"
    /\ probe.last.password = ""
    /\ probe.last.login = "admin"
    /\ probe.last.domain = "d.rt.ru"
    /\ probe.last.before.is_authenticated
    /\ probe.last.before.base_url = OtherURL
    /\ probe.obj.s.header = Bearer("Ta")

\* The cleared state of a CloudPBXAuth session: no token, no refresh token,
\* flag false, no Authorization header, check_auth_status false.
Cleared(s) ==
    /\ s.token = None
    /\ s.refresh_token = None
    /\ ~s.is_authenticated
    /\ s.header = NoHeader
    /\ ~check_auth_status(s)

\* C28: a CloudPBXAuth session is in the cleared state when it is constructed
\* and after every logout; a get or post on a session whose flag is false is
\* rejected with an error, sends nothing and changes nothing; and the flag
\* becomes true again only by an authenticate that succeeds.
C28_LogoutClears ==
    /\ []((probe.kind = "creds" /\ probe.flavour = "cloudpbx") =>
            /\ (probe.last.method \in {None, "logout"} => Cleared(probe.obj.s))
            /\ ((probe.last.method \in {"get", "post"}
                    /\ ~probe.last.before.is_authenticated)
                  => /\ probe.last.raised
                     /\ ~probe.last.posted
                     /\ probe.obj.s = probe.last.before))
    /\ [][(/\ probe.kind = "creds"
            /\ probe.flavour = "cloudpbx"
            /\ ~probe.obj.s.is_authenticated
            /\ probe'.obj.s.is_authenticated)
              => (probe'.last.method = "authenticate" /\ probe'.last.ok)]_vars

\* A request on a session that had discovered an endpoint and was logged
\* out: it was rejected.
C28_Witness ==
    /\ probe.kind = "creds"
    /\ probe.flavour = "cloudpbx"
    /\ probe.last.method = "post"
    /\ probe.last.raised
    /\ probe.last.before.base_url = OtherURL
    /\ probe.last.before.header = NoHeader
    /\ probe.last.before.refresh_token = None

\* C29: after every successful authenticate the endpoint of the session is
\* the issuer decoded from the new token when the token carries one, and the
\* configured default endpoint when it does not, whatever endpoint an
\* earlier authenticate had discovered.
C29_EndpointDiscovery ==
    (probe.kind = "creds" /\ probe.last.method = "authenticate" /\ probe.last.ok) =>
        probe.obj.s.base_url =
            IF _extract_base_url_from_token(probe.last.token) # None
            THEN _extract_base_url_from_token(probe.last.token)
            ELSE DefaultURL

\* C30: in every reachable state of an auth object, after any sequence of
\* construction with a password, set_credentials, authenticate, renewal,
\* get, post and logout, the _password attribute is None and no other
\* attribute (login, domain, token, refresh token, endpoint, Authorization
\* header) holds a password the object was given.
C30_PasswordNotRetained ==
    probe.kind = "creds" =>
        /\ probe.obj._password = None
        /\ probe.obj.login # "pw"
        /\ probe.obj.domain # "pw"
        /\ probe.obj.s.token # "pw"
        /\ probe.obj.s.refresh_token # "pw"
        /\ probe.obj.s.base_url # "pw"
        /\ (probe.obj.s.header # NoHeader => probe.obj.s.header[2] # "pw")

\* The object was just authenticated with the password.
C30_Witness ==
    /\ probe.kind = "creds"
    /\ probe.last.method = "authenticate"
    /\ probe.last.password = "pw"
    /\ probe.last.ok
    /\ probe.obj.s.is_authenticated

\* C31: for a POST as for a GET, a renewal is attempted only after the
\* request and one unmodified retry of it were both answered 401, and a
\* request whose first answer was 401 is sent a second time unmodified.
C31_SamePolicy ==
    (variant = "session" /\ call.method \in {"get", "post"}) =>
        /\ (call.result.renewals = 1 => (call.r1 = "401" /\ call.r2 = "401"))
        /\ (call.r1 = "401" =>
               (Len(call.result.sent) >= 2 /\ call.result.sent[2] = call.result.sent[1]))

\* C32: within one cycle there is a pause between any two successive
\* download requests, whether the earlier download succeeded or failed.
C32_PauseBetweenDownloads ==
    probe.kind = "loop" =>
        \A a, b \in 1..Len(probe.events) :
            (/\ a < b
             /\ probe.events[a].e = "download" /\ probe.events[a].sent
             /\ probe.events[b].e = "download" /\ probe.events[b].sent)
            => \E k \in (a + 1)..(b - 1) : probe.events[k].e = "pause"

\* C33: the reporting step never fails the cycle: from the step that reads
\* the ledger totals and logs them a worker goes on to the sleep before the
\* next cycle, and the step changes neither the ledger nor the download
\* directory.
C33_ReportingNeverFails ==
    [][\A w \in Workers :
          (variant \in {"rostelcom", "svyaztransit"} /\ pc[w] \in {"report", "stats"}
             /\ pc'[w] # pc[w])
          => (/\ pc'[w] \in {"stats", "sleep", "crashed", "stopped"}
              /\ db' = db
              /\ files' = files)]_vars

\* The three predicates of the filter, each applied to a whole list.
HasRecording(records) == SelectSeq(records, LAMBDA r : r.has_record)
LongEnough(records) ==
    SelectSeq(records, LAMBDA r : r.duration_seconds >= probe.min_duration)
RightDirection(records) ==
    SelectSeq(records, LAMBDA r : probe.only_incoming =>
                                      r.direction_type \in {"group", "group_skip"})

\* C34: the has-recording, minimum-duration and direction predicates applied
\* one after the other to the whole list give, in each of their six orders,
\* the list filter_records returns; and filter_records applied to the list
\* it returned gives that list again.
C34_FilterCommutes ==
    (probe.kind = "filter" /\ probe.done) =>
        /\ probe.result = RightDirection(LongEnough(HasRecording(probe.records)))
        /\ probe.result = LongEnough(RightDirection(HasRecording(probe.records)))
        /\ probe.result = RightDirection(HasRecording(LongEnough(probe.records)))
        /\ probe.result = HasRecording(RightDirection(LongEnough(probe.records)))
        /\ probe.result = LongEnough(HasRecording(RightDirection(probe.records)))
        /\ probe.result = HasRecording(LongEnough(RightDirection(probe.records)))
        /\ filter_records_policy(probe.result, probe.min_duration, probe.only_incoming)
              = probe.result

\* A list in which each predicate turns a record down and a later record
\* passes all three.
C34_Witness ==
    /\ probe.kind = "filter"
    /\ probe.done
    /\ probe.only_incoming
    /\ Len(probe.records) = 4
    /\ ~probe.records[1].has_record
    /\ Len(HasRecording(probe.records)) = 3
    /\ Len(LongEnough(HasRecording(probe.records))) = 2
    /\ Len(probe.result) = 1
    /\ probe.result[1] = probe.records[4]

\* C35: dedup decides by the record's stable id: a fetched record whose id
\* has no row in the ledger gets a download attempt, and a record whose id
\* has a row is skipped, whatever file names the records generate.
C35_DedupByIdentity ==
    (probe.kind = "loop" /\ probe.flavour = "svyaztransit") =>
        \A k \in 1..Len(probe.events) :
            /\ (probe.events[k].e = "skip" => probe.events[k].known)
            /\ (probe.events[k].e = "download" => ~probe.events[k].known)

\* The live workers of a city: the one its handle names, the one started
\* and not yet recorded, and those whose handle was overwritten.
LiveWorkers(c) ==
    (IF c \in DOMAIN sup.processes /\ sup.processes[c].alive THEN 1 ELSE 0)
    + (IF sup.pending.city_id = c /\ sup.pending.process.alive THEN 1 ELSE 0)
    + sup.replaced[c]

\* C36: once the signal handler's stop_all has completed, wherever the signal
\* interrupted the supervisor, no worker the supervisor started is alive.
C36_NoWorkerSurvives ==
    (sup.kind = "supervisor" /\ sup.stopped) => \A c \in Cities : LiveWorkers(c) = 0

\* C37: each tenant has at most one live worker, the handle stored for a
\* tenant is that of its most recently started worker once
\* _start_city_process has returned, and a worker is started only for a
\* tenant that has no handle yet or whose current worker is not alive.
C37_OneLiveWorker ==
    /\ [](sup.kind = "supervisor" =>
            \A c \in Cities :
               /\ LiveWorkers(c) <= 1
               /\ sup.pending.city_id # c => sup.handle[c] = sup.starts[c])
    /\ [][sup.kind = "supervisor" =>
            \A c \in Cities :
               sup'.starts[c] # sup.starts[c] =>
                  (c \notin DOMAIN sup.processes \/ ~sup.processes[c].alive)]_vars

C37_Witness ==
    /\ sup.kind = "supervisor"
    /\ \E c \in Cities :
         /\ sup.starts[c] >= 2
         /\ sup.handle[c] = sup.starts[c]
         /\ sup.processes[c].alive
         /\ sup.at = "monitor"

\* C38: in both provider variants, right after an authenticate/login call
\* the session's authenticated flag is true exactly when that attempt
\* succeeded, and right after a logout call it is false.
C38_FlagTracksLatestAttempt ==
    probe.kind = "creds" =>
       /\ probe.last.method = "authenticate" =>
             (probe.obj.s.is_authenticated <=> probe.last.ok)
       /\ probe.last.method = "logout" => ~probe.obj.s.is_authenticated

\* C39: in every state of the CloudPBX session, an authenticated session
\* holds a bearer token and its Authorization header carries that token.
C39_AuthenticatedImpliesToken ==
    (probe.kind = "creds" /\ probe.flavour = "cloudpbx" /\ probe.obj.s.is_authenticated) =>
       /\ probe.obj.s.token # None
       /\ probe.obj.s.header = Bearer(probe.obj.s.token)

\* C40: restart_count never exceeds max_restarts_per_hour, restart_count and
\* last_restart_time change only in a call that launched a watcher, and no
\* 3600 seconds hold more than max_restarts_per_hour launches.
C40_RestartBookkeeping ==
    /\ [](probe.kind = "restarter" =>
            /\ probe.w.restart_count <= max_restarts_per_hour
            /\ Cardinality(probe.recent) <= max_restarts_per_hour)
    /\ [][probe.kind = "restarter" =>
            (probe'.w # probe.w => probe'.launched)]_vars

=============================================================================
